---- MODULE Spec2Model ----
(***************************************************************************)
(* reth-blob-exex: the blob ExEx (src/exex.rs) writing blob statistics     *)
(* into the SQLite store (src/db.rs).                                      *)
(*                                                                         *)
(* The store is the four tables of Database::create_tables.  The ExEx is   *)
(* the loop of blob_exex: it takes one notification from the stream, runs  *)
(* revert_chain / process_chain on its chains and sends FinishedHeight.    *)
(* Every store call is one autocommit SQL statement, so one statement is   *)
(* one step of the model, and every statement can fail (the `?` on it).    *)
(* src/main.rs is the same loop over a bare rusqlite Connection, without   *)
(* the excess_blob_gas column.                                             *)
(***************************************************************************)
EXTENDS Integers, Sequences, FiniteSets, TLC

\* Number of notifications the stream delivers in one run.
MaxNotifs == 3

\* alloy_eips::eip4844::DATA_GAS_PER_BLOB (exex.rs:2, used at exex.rs:78)
DATA_GAS_PER_BLOB == 131072

----------------------------------------------------------------------------
(* Option<T> values of the source.                                         *)
Some(x) == [some |-> TRUE, v |-> <<x>>]
None == [some |-> FALSE, v |-> <<>>]
unwrap_or(opt, default) == IF opt.some THEN opt.v[1] ELSE default

RECURSIVE SumSeq(_)
SumSeq(s) == IF s = <<>> THEN 0 ELSE Head(s) + SumSeq(Tail(s))

\* an operator applied to the values of its arguments
Strict1(Op(_), x) == CHOOSE r \in {Op(a) : a \in {x}} : TRUE
Strict2(Op(_, _), x, y) == CHOOSE r \in {Op(a, b) : a \in {x}, b \in {y}} : TRUE

RECURSIVE SetToSeq(_)
SetToSeq(S) == IF S = {} THEN <<>>
               ELSE LET x == CHOOSE y \in S : TRUE IN <<x>> \o SetToSeq(S \ {x})

----------------------------------------------------------------------------
(* The transactions and blocks the notification stream can carry.  What    *)
(* process_chain reads of a transaction: tx_type(), blob_versioned_hashes()*)
(* recover_signer(), tx_hash(); of a block: header().number(), timestamp(),*)
(* blob_fee(), excess_blob_gas(), body().transactions().                   *)

\* a blob transaction with two blobs
Tx1 == [tx_hash |-> "0xt1", tx_type |-> 3,
        blob_versioned_hashes |-> Some(<<"0xh1", "0xh2">>),
        recover_signer |-> Some("0xS1")]
\* a blob transaction whose signer cannot be recovered
Tx2 == [tx_hash |-> "0xt2", tx_type |-> 3,
        blob_versioned_hashes |-> Some(<<"0xh3">>),
        recover_signer |-> None]
\* an EIP-1559 transaction: no blobs
Tx3 == [tx_hash |-> "0xt3", tx_type |-> 2,
        blob_versioned_hashes |-> None,
        recover_signer |-> Some("0xS2")]
\* a blob transaction with one blob, included in blocks of both forks
Tx4 == [tx_hash |-> "0xt4", tx_type |-> 3,
        blob_versioned_hashes |-> Some(<<"0xh4">>),
        recover_signer |-> Some("0xS2")]

\* fork a, block 1 and block 2; fork b, block 1
Block1a == [number |-> 1, hash |-> "0xb1a", timestamp |-> 12,
            blob_fee |-> Some(1), excess_blob_gas |-> Some(0),
            transactions |-> <<Tx1, Tx3>>]
Block2a == [number |-> 2, hash |-> "0xb2a", timestamp |-> 24,
            blob_fee |-> Some(2), excess_blob_gas |-> Some(5),
            transactions |-> <<Tx2, Tx4>>]
Block1b == [number |-> 1, hash |-> "0xb1b", timestamp |-> 13,
            blob_fee |-> Some(3), excess_blob_gas |-> Some(7),
            transactions |-> <<Tx4>>]

\* Chain: blocks in ascending block-number order (blocks_iter's order)
Chains == { <<Block1a>>, <<Block2a>>, <<Block1a, Block2a>>, <<Block1b>> }

NoChain == <<>>

ChainCommitted(new) == [kind |-> "ChainCommitted", old |-> NoChain, new |-> new]
ChainReorged(old, new) == [kind |-> "ChainReorged", old |-> old, new |-> new]
ChainReverted(old) == [kind |-> "ChainReverted", old |-> old, new |-> NoChain]

\* a reorg replaces a chain by one of the other fork from the same height
Notifications ==
    { ChainCommitted(c) : c \in Chains }
    \cup { ChainReverted(c) : c \in Chains }
    \cup { ChainReorged(o, n) : <<o, n>> \in
             { p \in Chains \X Chains :
                 /\ p[1][1].number = p[2][1].number
                 /\ p[1][1].hash # p[2][1].hash } }

NoNotification == [kind |-> "none", old |-> NoChain, new |-> NoChain]

----------------------------------------------------------------------------
(* Database (db.rs): the four tables.  blocks, senders and                 *)
(* blob_transactions have a PRIMARY KEY and are functions from the key to  *)
(* the row; blob_hashes has only the AUTOINCREMENT id and is the sequence  *)
(* of its rows in id order.                                                *)

EmptyTable == [k \in {} |-> 0]

\* Database::new / create_tables on a fresh file
EmptyDb == [blocks |-> EmptyTable, senders |-> EmptyTable,
            blob_transactions |-> EmptyTable, blob_hashes |-> <<>>]

Upsert(table, key, row) ==
    [k \in (DOMAIN table) \cup {key} |-> IF k = key THEN row ELSE table[k]]

\* insert_block as an upsert that adds the counts to the row it finds
insert_block_add(d, block_number, block_timestamp, tx_count, total_blobs, gas_used, gas_price, excess_blob_gas) ==
    LET had == block_number \in DOMAIN d.blocks
        was == IF had THEN d.blocks[block_number]
               ELSE [tx_count |-> 0, total_blobs |-> 0, gas_used |-> 0]
    IN [d EXCEPT !.blocks = Upsert(@, block_number,
        [block_number |-> block_number, block_timestamp |-> block_timestamp,
         tx_count |-> was.tx_count + tx_count,
         total_blobs |-> was.total_blobs + total_blobs,
         gas_used |-> was.gas_used + gas_used, gas_price |-> gas_price,
         excess_blob_gas |-> excess_blob_gas])]

\* INSERT OR REPLACE INTO blocks VALUES (?, ?, ?, ?, ?, ?, ?)
insert_block(d, block_number, block_timestamp, tx_count, total_blobs, gas_used, gas_price, excess_blob_gas) ==
    [d EXCEPT !.blocks = Upsert(@, block_number,
        [block_number |-> block_number, block_timestamp |-> block_timestamp,
         tx_count |-> tx_count, total_blobs |-> total_blobs,
         gas_used |-> gas_used, gas_price |-> gas_price,
         excess_blob_gas |-> excess_blob_gas])]

\* insert_blob_transaction as INSERT OR IGNORE: the row found is kept
insert_blob_transaction_ignore(d, tx_hash, block_number, sender, blob_count, gas_price, created_at) ==
    IF tx_hash \in DOMAIN d.blob_transactions THEN d
    ELSE [d EXCEPT !.blob_transactions = Upsert(@, tx_hash,
            [tx_hash |-> tx_hash, block_number |-> block_number,
             sender |-> sender, blob_count |-> blob_count,
             gas_price |-> gas_price, created_at |-> created_at])]

\* INSERT OR REPLACE INTO blob_transactions VALUES (?, ?, ?, ?, ?, ?)
insert_blob_transaction(d, tx_hash, block_number, sender, blob_count, gas_price, created_at) ==
    [d EXCEPT !.blob_transactions = Upsert(@, tx_hash,
        [tx_hash |-> tx_hash, block_number |-> block_number,
         sender |-> sender, blob_count |-> blob_count,
         gas_price |-> gas_price, created_at |-> created_at])]

\* INSERT INTO blob_hashes (tx_hash, blob_hash, blob_index) VALUES (?, ?, ?)
insert_blob_hash(d, tx_hash, blob_hash, blob_index) ==
    [d EXCEPT !.blob_hashes = Append(@,
        [id |-> Len(@) + 1, tx_hash |-> tx_hash, blob_hash |-> blob_hash,
         blob_index |-> blob_index])]

\* update_sender as INSERT OR REPLACE: the row is overwritten
update_sender_replace(d, sender, num_blobs) ==
    [d EXCEPT !.senders = Upsert(@, sender,
        [address |-> sender, tx_count |-> 1, total_blobs |-> num_blobs])]

\* INSERT INTO senders ... ON CONFLICT(address) DO UPDATE SET
\*   tx_count = tx_count + 1, total_blobs = total_blobs + ?
update_sender(d, sender, num_blobs) ==
    [d EXCEPT !.senders =
        IF sender \in DOMAIN @
        THEN [@ EXCEPT ![sender] =
                [address |-> sender, tx_count |-> @.tx_count + 1,
                 total_blobs |-> @.total_blobs + num_blobs]]
        ELSE Upsert(@, sender,
                [address |-> sender, tx_count |-> 1,
                 total_blobs |-> num_blobs])]

\* delete_block that also takes the block's transactions back: their
\* blob_transactions and blob_hashes rows and their share of senders
delete_block_cascade(d, block_number) ==
    LET gone == {h \in DOMAIN d.blob_transactions :
                   d.blob_transactions[h].block_number = block_number}
        NotGone(row) == row.tx_hash \notin gone
    IN [blocks |-> [k \in (DOMAIN d.blocks) \ {block_number} |-> d.blocks[k]],
        blob_transactions |->
            [h \in (DOMAIN d.blob_transactions) \ gone |->
                d.blob_transactions[h]],
        blob_hashes |-> SelectSeq(d.blob_hashes, NotGone),
        senders |->
            [a \in DOMAIN d.senders |->
               LET mine == {h \in gone : d.blob_transactions[h].sender = a}
                   blobs == SetToSeq(mine)
               IN [d.senders[a] EXCEPT
                     !.tx_count = @ - Cardinality(mine),
                     !.total_blobs = @ - SumSeq([i \in 1..Len(blobs) |->
                         d.blob_transactions[blobs[i]].blob_count])]]]

\* DELETE FROM blocks WHERE block_number = ?
delete_block(d, block_number) ==
    [d EXCEPT !.blocks = [k \in (DOMAIN @) \ {block_number} |-> @[k]]]

----------------------------------------------------------------------------
(* process_chain and revert_chain (exex.rs).  Neither reads the store, so  *)
(* the store statements a chain causes, in order, are a function of the    *)
(* chain; each statement is a record naming the Database method and its    *)
(* arguments.                                                              *)

\* exex.rs:53-55
ZeroCounters == [blob_tx_count |-> 0, total_blobs |-> 0, blob_gas_used |-> 0,
                 stmts |-> <<>>]

\* exex.rs:57-62: blob_fee(..).unwrap_or(0).try_into().unwrap_or(i64::MAX);
\* the fees of the blocks above are below i64::MAX, where try_into is Ok
blob_gas_price_of(block) == unwrap_or(block.blob_fee, 0)

\* exex.rs:64-69
excess_blob_gas_of(block) == unwrap_or(block.excess_blob_gas, 0)

\* exex.rs:72-101: the body of the transaction loop for one transaction
process_tx(block, tx, acc) ==
    IF tx.tx_type # 3 THEN acc
    ELSE
      LET counted == [acc EXCEPT !.blob_tx_count = @ + 1] IN
      IF ~tx.blob_versioned_hashes.some THEN counted
      ELSE
        LET blob_hashes == tx.blob_versioned_hashes.v[1]
            num_blobs == Len(blob_hashes)
            summed == [counted EXCEPT
                         !.total_blobs = @ + num_blobs,
                         !.blob_gas_used = @ + num_blobs * DATA_GAS_PER_BLOB]
        IN
        IF ~tx.recover_signer.some THEN summed
        ELSE
          LET sender == tx.recover_signer.v[1] IN
          [summed EXCEPT !.stmts = @
             \o << [op |-> "insert_blob_transaction", tx_hash |-> tx.tx_hash,
                    block_number |-> block.number, sender |-> sender,
                    blob_count |-> num_blobs,
                    gas_price |-> blob_gas_price_of(block),
                    created_at |-> block.timestamp] >>
             \o [idx \in 1..num_blobs |->
                   [op |-> "insert_blob_hash", tx_hash |-> tx.tx_hash,
                    blob_hash |-> blob_hashes[idx], blob_index |-> idx - 1]]
             \o << [op |-> "update_sender", sender |-> sender,
                    num_blobs |-> num_blobs] >>]

\* exex.rs:71: for tx in block.body().transactions()
RECURSIVE tx_loop(_, _, _)
tx_loop(block, i, acc) ==
    IF i > Len(block.transactions) THEN acc
    ELSE tx_loop(block, i + 1, process_tx(block, block.transactions[i], acc))

\* the block loop's iteration with insert_block ahead of the transactions
process_block_row_first(block, init) ==
    LET acc == tx_loop(block, 1, [init EXCEPT !.stmts = <<>>]) IN
    [acc EXCEPT !.stmts =
       << [op |-> "insert_block", block_number |-> block.number,
           block_timestamp |-> block.timestamp,
           tx_count |-> acc.blob_tx_count,
           total_blobs |-> acc.total_blobs,
           gas_used |-> acc.blob_gas_used,
           gas_price |-> blob_gas_price_of(block),
           excess_blob_gas |-> excess_blob_gas_of(block)] >> \o @]

\* exex.rs:51-112: one iteration of the block loop, from the counters
\* `init`; the result carries the final counters and the block's statements
process_block(block, init) ==
    LET acc == tx_loop(block, 1, [init EXCEPT !.stmts = <<>>]) IN
    [acc EXCEPT !.stmts = @
       \o << [op |-> "insert_block", block_number |-> block.number,
              block_timestamp |-> block.timestamp,
              tx_count |-> acc.blob_tx_count,
              total_blobs |-> acc.total_blobs,
              gas_used |-> acc.blob_gas_used,
              gas_price |-> blob_gas_price_of(block),
              excess_blob_gas |-> excess_blob_gas_of(block)] >>]

\* process_chain with the counters declared outside the block loop
RECURSIVE block_loop_carry(_, _, _)
block_loop_carry(chain, i, carry) ==
    IF i > Len(chain) THEN <<>>
    ELSE LET acc == process_block(chain[i], carry) IN
         acc.stmts \o block_loop_carry(chain, i + 1, acc)

process_chain_carry(chain) == block_loop_carry(chain, 1, ZeroCounters)

RECURSIVE block_loop(_, _)
block_loop(chain, i) ==
    IF i > Len(chain) THEN <<>>
    ELSE process_block(chain[i], ZeroCounters).stmts \o block_loop(chain, i + 1)

\* exex.rs:49-122
process_chain(chain) == block_loop(chain, 1)

\* exex.rs:125-131
revert_chain(chain) ==
    [i \in 1..Len(chain) |->
       [op |-> "delete_block", block_number |-> chain[i].number]]

\* blob_exex with the two calls of the ChainReorged arm swapped
notification_stmts_new_first(n) ==
    CASE n.kind = "ChainCommitted" -> process_chain(n.new)
      [] n.kind = "ChainReorged"   -> process_chain(n.new) \o revert_chain(n.old)
      [] n.kind = "ChainReverted"  -> revert_chain(n.old)
      [] OTHER -> <<>>

\* exex.rs:28-39: the match of blob_exex
notification_stmts(n) ==
    CASE n.kind = "ChainCommitted" -> process_chain(n.new)
      [] n.kind = "ChainReorged"   -> revert_chain(n.old) \o process_chain(n.new)
      [] n.kind = "ChainReverted"  -> revert_chain(n.old)
      [] OTHER -> <<>>

\* committed_chain that also answers for a reverted chain
committed_chain_any(n) ==
    IF n.kind = "ChainReverted" THEN Some(n.old)
    ELSE IF n.kind \in {"ChainCommitted", "ChainReorged"} THEN Some(n.new)
    ELSE None

\* ExExNotification::committed_chain (exex.rs:41)
committed_chain(n) ==
    IF n.kind \in {"ChainCommitted", "ChainReorged"} THEN Some(n.new) ELSE None

\* Chain::tip().num_hash() (exex.rs:43)
tip_num_hash(chain) ==
    [number |-> chain[Len(chain)].number, hash |-> chain[Len(chain)].hash]

\* ExExEvent::FinishedHeight (exex.rs:43)
FinishedHeight(num_hash) == [event |-> "FinishedHeight", height |-> num_hash]

----------------------------------------------------------------------------
VARIABLES
    db,            \* the SQLite store
    pc,            \* where blob_exex is: "next" at try_next().await,
                   \* "apply" inside the match, "send" at ctx.events.send,
                   \* "failed" returned Err, "done" returned Ok
    notification,  \* the notification taken from the stream last
    log,           \* the statements executed for it so far
    events,        \* what was sent on ctx.events
    failure,       \* which `?` returned the Err: "store", "stream", "send"
    start,         \* history: the store when `notification` was taken
    hist,          \* history: the notifications whose loop iteration
                   \* finished, each with the store it left
    reader         \* a request of the web server (bin/web.rs, web.rs,
                   \* the read methods of db.rs): the handler, its
                   \* arguments, what it has read so far and its response

vars == <<db, pc, notification, log, events, failure, start, hist, reader>>

\* no request is being served
Idle == [pc |-> "idle"]

Init ==
    /\ db = EmptyDb
    /\ pc = "next"
    /\ notification = NoNotification
    /\ log = <<>>
    /\ events = <<>>
    /\ failure = "none"
    /\ start = EmptyDb
    /\ hist = <<>>
    /\ reader = Idle

stmts == notification_stmts(notification)

\* the statement blob_exex executes next
stmt == stmts[Len(log) + 1]

\* the next notification is taken while the FinishedHeight of the last
\* one is still to be sent
ReceiveEarly ==
    /\ pc \in {"next", "send"}
    /\ Len(hist) < MaxNotifs
    /\ \E n \in Notifications :
         /\ notification' = n
         /\ pc' = "apply"
    /\ log' = <<>>
    /\ start' = db
    /\ UNCHANGED <<reader, db, events, failure, hist>>

\* exex.rs:27: try_next() yields Some(notification)
Receive ==
    /\ pc = "next"
    /\ Len(hist) < MaxNotifs
    /\ \E n \in Notifications :
         /\ notification' = n
         /\ pc' = "apply"
    /\ log' = <<>>
    /\ start' = db
    /\ UNCHANGED <<reader, db, events, failure, hist>>

\* exex.rs:27: try_next() yields None, the loop ends, Ok(()) at exex.rs:46
StreamEnd ==
    /\ pc = "next"
    /\ pc' = "done"
    /\ UNCHANGED <<reader, db, notification, log, events, failure, start, hist>>

\* exex.rs:27: try_next() yields Err, returned by `?`
StreamError ==
    /\ pc = "next"
    /\ pc' = "failed"
    /\ failure' = "stream"
    /\ UNCHANGED <<reader, db, notification, log, events, start, hist>>

\* a statement returned Ok: on to the next one, or out of the match to
\* exex.rs:41; a notification without committed chain ends the iteration
Executed(newdb) ==
    /\ db' = newdb
    /\ log' = Append(log, stmt)
    /\ IF Len(log) + 1 < Len(stmts)
         THEN pc' = "apply" /\ UNCHANGED hist
         ELSE IF committed_chain(notification).some
                THEN pc' = "send" /\ UNCHANGED hist
                ELSE /\ pc' = "next"
                     /\ hist' = Append(hist, [notification |-> notification,
                                              db |-> newdb])
    /\ UNCHANGED <<reader, notification, events, failure, start>>

\* exex.rs:127
ExecDeleteBlock ==
    /\ pc = "apply"
    /\ stmt.op = "delete_block"
    /\ Executed(delete_block(db, stmt.block_number))

\* exex.rs:84-91
ExecInsertBlobTransaction ==
    /\ pc = "apply"
    /\ stmt.op = "insert_blob_transaction"
    /\ Executed(insert_blob_transaction(db, stmt.tx_hash, stmt.block_number,
                    stmt.sender, stmt.blob_count, stmt.gas_price,
                    stmt.created_at))

\* exex.rs:95
ExecInsertBlobHash ==
    /\ pc = "apply"
    /\ stmt.op = "insert_blob_hash"
    /\ Executed(insert_blob_hash(db, stmt.tx_hash, stmt.blob_hash,
                                 stmt.blob_index))

\* exex.rs:98
ExecUpdateSender ==
    /\ pc = "apply"
    /\ stmt.op = "update_sender"
    /\ Executed(update_sender(db, stmt.sender, stmt.num_blobs))

\* exex.rs:104-112
ExecInsertBlock ==
    /\ pc = "apply"
    /\ stmt.op = "insert_block"
    /\ Executed(insert_block(db, stmt.block_number, stmt.block_timestamp,
                    stmt.tx_count, stmt.total_blobs, stmt.gas_used,
                    stmt.gas_price, stmt.excess_blob_gas))

\* a failed statement is skipped and the loop goes on
StoreFailureSkipped ==
    /\ pc = "apply"
    /\ pc' = "next"
    /\ failure' = "store"
    /\ UNCHANGED <<reader, db, notification, log, events, start, hist>>

\* the statement returns Err (rusqlite error): `?` returns it from
\* process_chain / revert_chain and from blob_exex
StoreFailure ==
    /\ pc = "apply"
    /\ pc' = "failed"
    /\ failure' = "store"
    /\ UNCHANGED <<reader, db, notification, log, events, start, hist>>

\* exex.rs:41-44: ctx.events.send(FinishedHeight(tip)) returns Ok
SendFinishedHeight ==
    /\ pc = "send"
    /\ events' = Append(events,
          FinishedHeight(tip_num_hash(committed_chain(notification).v[1])))
    /\ pc' = "next"
    /\ hist' = Append(hist, [notification |-> notification, db |-> db])
    /\ UNCHANGED <<reader, db, notification, log, failure, start>>

\* exex.rs:43: send returns Err (the receiver is gone), returned by `?`
SendFailure ==
    /\ pc = "send"
    /\ pc' = "failed"
    /\ failure' = "send"
    /\ UNCHANGED <<reader, db, notification, log, events, start, hist>>

Next ==
    \/ Receive
    \/ StreamEnd
    \/ StreamError
    \/ ExecDeleteBlock
    \/ ExecInsertBlobTransaction
    \/ ExecInsertBlobHash
    \/ ExecUpdateSender
    \/ ExecInsertBlock
    \/ StoreFailure
    \/ SendFinishedHeight
    \/ SendFailure

Spec == Init /\ [][Next]_vars

----------------------------------------------------------------------------
(* Properties of the ExEx and its store.                                   *)

\* a loop iteration has finished and no `?` has returned an Err
Applied == pc \in {"next", "done"} /\ failure = "none"

Range(seq) == {seq[i] : i \in 1..Len(seq)}

BlockNumbers(chain) == {chain[i].number : i \in 1..Len(chain)}

\* sum of blob_count over the blob_transactions rows of block n
BlobCountOfBlock(d, n) ==
    LET hashes == SetToSeq({h \in DOMAIN d.blob_transactions :
                              d.blob_transactions[h].block_number = n})
    IN SumSeq([i \in 1..Len(hashes) |->
                 d.blob_transactions[hashes[i]].blob_count])

IsCommit(h) == h.notification.kind \in {"ChainCommitted", "ChainReorged"}

\* one FinishedHeight, of the new chain's last block, for every finished
\* ChainCommitted or ChainReorged notification, in their order
AcksOf(history) ==
    LET commits == SelectSeq(history, IsCommit) IN
    [i \in 1..Len(commits) |->
       LET new == commits[i].notification.new IN
       [event |-> "FinishedHeight",
        height |-> [number |-> new[Len(new)].number,
                    hash |-> new[Len(new)].hash]]]

\* the blob transactions of a block whose signer is recovered
RecoverableBlobTxs(block) ==
    SelectSeq(block.transactions,
              LAMBDA tx : tx.tx_type = 3 /\ tx.blob_versioned_hashes.some
                          /\ tx.recover_signer.some)

UnrecoverableBlobTxs(block) ==
    SelectSeq(block.transactions,
              LAMBDA tx : tx.tx_type = 3 /\ tx.blob_versioned_hashes.some
                          /\ ~tx.recover_signer.some)

BlobsOf(txs) ==
    SumSeq([i \in 1..Len(txs) |-> Len(txs[i].blob_versioned_hashes.v[1])])

----------------------------------------------------------------------------
\* C1: in a store left by notifications that were all applied without
\* error, every blocks row's total_blobs is the sum of blob_count over the
\* blob_transactions rows with its block_number.
AggregateConsistency ==
    Applied =>
      \A n \in DOMAIN db.blocks :
          db.blocks[n].total_blobs = BlobCountOfBlock(db, n)

\* C2: a ChainCommitted notification applied twice in a row leaves the
\* blocks and blob_transactions rows that applying it once left.
IdempotentReplay ==
    \A k \in 1..(Len(hist) - 1) :
       ( /\ hist[k].notification.kind = "ChainCommitted"
         /\ hist[k + 1].notification = hist[k].notification )
       => /\ hist[k + 1].db.blocks = hist[k].db.blocks
          /\ hist[k + 1].db.blob_transactions = hist[k].db.blob_transactions

ReplayHappened ==
    /\ Len(hist) >= 2
    /\ hist[1].notification = ChainCommitted(<<Block1a, Block2a>>)
    /\ hist[2].notification = hist[1].notification
    /\ DOMAIN db.blocks = {1, 2}
    /\ DOMAIN db.blob_transactions = {"0xt1", "0xt4"}

\* block was written by a notification before the j-th and no notification
\* between that one and the j-th deleted or wrote its block number
PreviouslyCommitted(block, j) ==
    \E i \in 1..(j - 1) :
       /\ block \in Range(hist[i].notification.new)
       /\ \A k \in (i + 1)..(j - 1) :
             block.number \notin BlockNumbers(hist[k].notification.old)
                                 \cup BlockNumbers(hist[k].notification.new)

\* C3: ChainReverted(X) followed by ChainCommitted(X), for blocks of X that
\* had been committed, leaves for each of them the blocks row (all seven
\* columns) that was there before the revert.
RevertRecommit ==
    \A j \in 2..(Len(hist) - 1) :
       LET X == hist[j].notification.old IN
       ( /\ hist[j].notification.kind = "ChainReverted"
         /\ hist[j + 1].notification = ChainCommitted(X) )
       => \A b \in 1..Len(X) :
            PreviouslyCommitted(X[b], j)
            => /\ X[b].number \in DOMAIN hist[j - 1].db.blocks
               /\ X[b].number \in DOMAIN hist[j + 1].db.blocks
               /\ hist[j + 1].db.blocks[X[b].number]
                    = hist[j - 1].db.blocks[X[b].number]

RevertRecommitHappened ==
    /\ Len(hist) = 3
    /\ hist[1].notification = ChainCommitted(<<Block1a, Block2a>>)
    /\ hist[2].notification = ChainReverted(<<Block2a>>)
    /\ hist[3].notification = ChainCommitted(<<Block2a>>)
    /\ 2 \notin DOMAIN hist[2].db.blocks
    /\ 2 \in DOMAIN db.blocks

\* C4: a blob transaction whose signer is not recovered does not stop the
\* notification, causes no blob_transactions, blob_hashes or senders
\* statement, and is left out of its block's tx_count, total_blobs and
\* gas_used.
SignerFailureExcluded ==
    (pc \in {"send", "next"} /\ failure = "none" /\ notification.new # NoChain)
    => \A b \in 1..Len(notification.new) :
         LET block == notification.new[b]
             good == RecoverableBlobTxs(block)
             bad == UnrecoverableBlobTxs(block)
         IN /\ \A i \in 1..Len(bad), l \in 1..Len(log) :
                  log[l].op \in {"insert_blob_transaction", "insert_blob_hash"}
                  => log[l].tx_hash # bad[i].tx_hash
            /\ Cardinality({l \in 1..Len(log) : log[l].op = "update_sender"})
                 = SumSeq([c \in 1..Len(notification.new) |->
                             Len(RecoverableBlobTxs(notification.new[c]))])
            /\ block.number \in DOMAIN db.blocks
            /\ db.blocks[block.number].tx_count = Len(good)
            /\ db.blocks[block.number].total_blobs = BlobsOf(good)
            /\ db.blocks[block.number].gas_used
                 = BlobsOf(good) * DATA_GAS_PER_BLOB


\* C5: for a ChainReorged notification every delete_block of the old chain
\* is executed before any statement of the new chain, and a block number
\* of both chains ends with the new chain's blocks row.
ReorgOldThenNew ==
    notification.kind = "ChainReorged" =>
      /\ \A i, j \in 1..Len(log) :
            (log[i].op = "delete_block" /\ log[j].op # "delete_block")
            => i < j
      /\ (\E j \in 1..Len(log) : log[j].op # "delete_block")
            => \A i \in 1..Len(notification.old) :
                  /\ log[i].op = "delete_block"
                  /\ log[i].block_number = notification.old[i].number
      /\ (pc \in {"send", "next", "done"} /\ failure = "none")
            => \A i \in 1..Len(notification.new) :
                  LET block == notification.new[i] IN
                  /\ block.number \in DOMAIN db.blocks
                  /\ db.blocks[block.number].block_timestamp = block.timestamp
                  /\ db.blocks[block.number].gas_price = block.blob_fee.v[1]
                  /\ db.blocks[block.number].excess_blob_gas
                       = block.excess_blob_gas.v[1]

ReorgApplied ==
    /\ pc = "send"
    /\ notification = ChainReorged(<<Block1a, Block2a>>, <<Block1b>>)
    /\ start.blocks # EmptyTable
    /\ 1 \in DOMAIN start.blocks
    /\ start.blocks[1].block_timestamp = Block1a.timestamp
    /\ db.blocks[1].block_timestamp = Block1b.timestamp

\* a step that sends an event sends the FinishedHeight of the tip of the
\* new chain, for a notification all of whose statements are executed
AckStep ==
    events' # events =>
      /\ notification.kind \in {"ChainCommitted", "ChainReorged"}
      /\ log = notification_stmts(notification)
      /\ Len(log) > 0
      /\ db' = db
      /\ events' = Append(events,
            [event |-> "FinishedHeight",
             height |-> [number |-> notification.new[Len(notification.new)].number,
                         hash |-> notification.new[Len(notification.new)].hash]])

\* C6: every ChainCommitted or ChainReorged notification that is applied
\* gets exactly one FinishedHeight, sent after all its statements, with the
\* tip of the new chain; a ChainReverted notification gets none.
AckAfterApply ==
    /\ [](events = AcksOf(hist))
    /\ [][AckStep]_vars

AckSent ==
    /\ Len(hist) >= 2
    /\ hist[1].notification = ChainCommitted(<<Block1a, Block2a>>)
    /\ hist[2].notification.kind = "ChainReverted"
    /\ Len(events) = 1
    /\ events[1].height = [number |-> 2, hash |-> "0xb2a"]
    /\ pc = "next"

\* C7: when a statement fails, the notification stops at it (the log is a
\* proper prefix of its statements), blob_exex has returned the Err, no
\* FinishedHeight was sent for the notification and no step follows.
StoreFailureIsFatal ==
    /\ [](failure = "store" =>
            /\ pc = "failed"
            /\ Len(log) < Len(notification_stmts(notification))
            /\ log = SubSeq(notification_stmts(notification), 1, Len(log))
            /\ events = AcksOf(hist))
    /\ [][pc # "failed" /\ failure = "none"]_vars

StoreFailed ==
    /\ failure = "store"
    /\ pc = "failed"
    /\ Len(log) >= 1
    /\ Len(hist) >= 1

\* C8: when a store error aborts a notification, the store is as it was
\* when the notification was taken from the stream.
NoPartialCommit ==
    failure = "store" => db = start

\* C9: after the blocks of a chain are reverted no blob_transactions row has
\* one of their block numbers, and between notifications every
\* blob_transactions row's block_number has a blocks row.
RevertRemovesBlobTransactions ==
    Applied =>
      /\ \A h \in DOMAIN db.blob_transactions :
            db.blob_transactions[h].block_number \in DOMAIN db.blocks
      /\ (Len(hist) > 0 /\ hist[Len(hist)].notification.kind = "ChainReverted")
            => \A h \in DOMAIN db.blob_transactions :
                  db.blob_transactions[h].block_number
                     \notin BlockNumbers(hist[Len(hist)].notification.old)

\* a step keeps every senders row with counters at least as large, and
\* every blob_hashes row
SendersAndHashesKept ==
    /\ \A a \in DOMAIN db.senders :
          /\ a \in DOMAIN db'.senders
          /\ db'.senders[a].tx_count >= db.senders[a].tx_count
          /\ db'.senders[a].total_blobs >= db.senders[a].total_blobs
    /\ Len(db'.blob_hashes) >= Len(db.blob_hashes)
    /\ SubSeq(db'.blob_hashes, 1, Len(db.blob_hashes)) = db.blob_hashes

\* a step that executes a delete_block leaves senders and blob_hashes alone
DeleteKeepsSendersAndHashes ==
    (pc = "apply" /\ Len(log') = Len(log) + 1
       /\ log'[Len(log')].op = "delete_block")
    => /\ db'.senders = db.senders
       /\ db'.blob_hashes = db.blob_hashes

UpdateSenderAdds ==
    (pc = "apply" /\ Len(log') = Len(log) + 1
       /\ log'[Len(log')].op = "update_sender")
    => LET a == log'[Len(log')].sender
           blobDelta == log'[Len(log')].num_blobs
       IN /\ DOMAIN db'.senders = (DOMAIN db.senders) \cup {a}
          /\ db'.senders[a].address = a
          /\ IF a \in DOMAIN db.senders
               THEN /\ db'.senders[a].tx_count = db.senders[a].tx_count + 1
                    /\ db'.senders[a].total_blobs
                         = db.senders[a].total_blobs + blobDelta
               ELSE /\ db'.senders[a].tx_count = 1
                    /\ db'.senders[a].total_blobs = blobDelta
          /\ \A o \in (DOMAIN db.senders) \ {a} :
                db'.senders[o] = db.senders[o]

\* C11: update_sender is an additive upsert: it creates the senders row
\* with tx_count = 1 and total_blobs = the blobs, or adds 1 and the blobs
\* to the row, and leaves every other senders row unchanged.
IncrementSender == [][UpdateSenderAdds]_vars

SenderIncremented ==
    /\ "0xS1" \in DOMAIN db.senders
    /\ "0xS2" \in DOMAIN db.senders
    /\ db.senders["0xS2"].tx_count = 2
    /\ db.senders["0xS2"].total_blobs = 2
    /\ db.senders["0xS1"] = [address |-> "0xS1", tx_count |-> 1,
                             total_blobs |-> 2]

\* a step that takes a notification from the stream: the statements of the
\* last one are all executed, its loop iteration has finished and its
\* FinishedHeight, if it has one, is the last event sent
TakeStep ==
    (pc # "apply" /\ pc' = "apply")
    => /\ pc = "next"
       /\ log = notification_stmts(notification)
       /\ events = AcksOf(hist)
       /\ notification.kind # "none"
            => /\ Len(hist) > 0
               /\ hist[Len(hist)].notification = notification
               /\ hist[Len(hist)].db = db

\* a step that changes the store executes the next statement of the
\* notification taken last
MutationStep ==
    db' # db
    => /\ pc = "apply"
       /\ notification' = notification
       /\ Len(log) < Len(notification_stmts(notification))
       /\ log' = SubSeq(notification_stmts(notification), 1, Len(log) + 1)

\* C12: a notification is taken from the stream only after the store
\* statements of the previous one are all executed and its FinishedHeight
\* (if any) is sent; statements of two notifications never interleave.
SequentialIngestion == [][TakeStep /\ MutationStep]_vars

SecondNotificationTaken ==
    /\ Len(hist) = 1
    /\ hist[1].notification = ChainCommitted(<<Block1a>>)
    /\ Len(events) = 1
    /\ pc = "apply"
    /\ notification = ChainCommitted(<<Block2a>>)
    /\ Len(log) = 2


----------------------------------------------------------------------------
(* The web server (bin/web.rs; web.rs serves the same queries through      *)
(* db.rs).  Numbers the handlers compute in f64 are kept exact: a ratio is *)
(* the record of its numerator and denominator.                            *)

\* bin/web.rs:16
BLOB_SIZE_BYTES == 131072
\* bin/web.rs:19
BLOB_TARGET == 10
\* bin/web.rs:20
BLOB_MAX == 15

Ratio(n, d) == [num |-> n, den |-> d]

\* r <= k for a ratio with a positive denominator
RatioLeq(r, k) == r.num <= k * r.den

\* classify_regime with the upper bounds exclusive
classify_regime_exclusive(total_blobs) ==
    LET utilization == Ratio(total_blobs * 100, BLOB_TARGET) IN
    IF ~RatioLeq(utilization, 50) \/ utilization.num = 50 * utilization.den
    THEN IF ~RatioLeq(utilization, 90) \/ utilization.num = 90 * utilization.den
         THEN IF ~RatioLeq(utilization, 120)
                    \/ utilization.num = 120 * utilization.den
              THEN IF ~RatioLeq(utilization, 150)
                         \/ utilization.num = 150 * utilization.den
                   THEN "saturated"
                   ELSE "congested"
              ELSE "pressured"
         ELSE "normal"
    ELSE "abundant"

\* bin/web.rs:177-190.  (total_blobs as f64 / 10.0) * 100.0 rounds to the
\* exact 50.0, 90.0, 120.0 and 150.0 at total_blobs = 5, 9, 12 and 15, so
\* the f64 comparisons decide as the exact ratio does.
classify_regime(total_blobs) ==
    LET utilization == Ratio(total_blobs * 100, BLOB_TARGET) IN
    IF RatioLeq(utilization, 50) THEN "abundant"
    ELSE IF RatioLeq(utilization, 90) THEN "normal"
    ELSE IF RatioLeq(utilization, 120) THEN "pressured"
    ELSE IF RatioLeq(utilization, 150) THEN "congested"
    ELSE "saturated"

(* Text.  A string the server inspects character by character is the       *)
(* sequence of its characters.                                             *)
UpperLetters == <<"A", "B", "C", "D", "E", "F", "G", "H", "I", "J", "K", "L", "M",
                  "N", "O", "P", "Q", "R", "S", "T", "U", "V", "W", "X", "Y", "Z">>
LowerLetters == <<"a", "b", "c", "d", "e", "f", "g", "h", "i", "j", "k", "l", "m",
                  "n", "o", "p", "q", "r", "s", "t", "u", "v", "w", "x", "y", "z">>

LowerChar(c) ==
    IF \E i \in 1..26 : UpperLetters[i] = c
    THEN LowerLetters[CHOOSE i \in 1..26 : UpperLetters[i] = c]
    ELSE c

UpperChar(c) ==
    IF \E i \in 1..26 : LowerLetters[i] = c
    THEN UpperLetters[CHOOSE i \in 1..26 : LowerLetters[i] = c]
    ELSE c

\* str::to_lowercase (bin/web.rs:193)
to_lowercase(text) == [i \in 1..Len(text) |-> LowerChar(text[i])]

to_uppercase(text) == [i \in 1..Len(text) |-> UpperChar(text[i])]

\* The arms of the match in identify_chain, in their order: the literal of
\* each arm as the source spells it, and the chain it names
\* (bin/web.rs:196-293).
ChainArms == <<
    [pattern |-> <<"0", "x", "5", "0", "5", "0", "f", "6", "9", "a", "9", "7", "8", "6",
                   "f", "0", "8", "1", "5", "0", "9", "2", "3", "4", "f", "1", "a", "7",
                   "f", "4", "6", "8", "4", "b", "5", "e", "5", "b", "7", "6", "c", "9">>,
     chain |-> "Base"],
    [pattern |-> <<"0", "x", "f", "f", "0", "0", "0", "0", "0", "0", "0", "0", "0", "0",
                   "0", "0", "0", "0", "0", "0", "0", "0", "0", "0", "0", "0", "0", "0",
                   "0", "0", "0", "0", "0", "0", "0", "0", "0", "0", "8", "4", "5", "3">>,
     chain |-> "Base"],
    [pattern |-> <<"0", "x", "6", "8", "8", "7", "2", "4", "6", "6", "6", "8", "a", "3",
                   "b", "8", "7", "f", "5", "4", "d", "e", "b", "3", "b", "9", "4", "b",
                   "a", "4", "7", "a", "6", "f", "6", "3", "f", "3", "2", "9", "8", "5">>,
     chain |-> "Optimism"],
    [pattern |-> <<"0", "x", "c", "1", "b", "6", "3", "4", "8", "5", "3", "c", "b", "3",
                   "3", "3", "d", "3", "a", "d", "8", "6", "6", "3", "7", "1", "5", "b",
                   "0", "8", "f", "4", "1", "a", "3", "a", "e", "c", "4", "7", "c", "c">>,
     chain |-> "Arbitrum"],
    [pattern |-> <<"0", "x", "a", "4", "b", "1", "0", "a", "c", "6", "1", "e", "7", "9",
                   "e", "a", "1", "e", "1", "5", "0", "d", "f", "7", "0", "b", "8", "d",
                   "d", "a", "5", "3", "3", "9", "1", "9", "2", "8", "f", "d", "1", "4">>,
     chain |-> "Arbitrum"],
    [pattern |-> <<"0", "x", "a", "4", "b", "1", "e", "6", "3", "c", "b", "4", "9", "0",
                   "1", "e", "3", "2", "7", "5", "9", "7", "b", "c", "3", "5", "d", "3",
                   "6", "f", "e", "8", "a", "2", "3", "e", "4", "c", "2", "5", "3", "f">>,
     chain |-> "Arbitrum"],
    [pattern |-> <<"0", "x", "a", "1", "e", "4", "3", "8", "0", "a", "3", "b", "1", "f",
                   "7", "4", "9", "6", "7", "3", "e", "2", "7", "0", "2", "2", "9", "9",
                   "9", "3", "e", "e", "5", "5", "f", "3", "5", "6", "6", "3", "b", "4">>,
     chain |-> "Scroll"],
    [pattern |-> <<"0", "x", "c", "f", "2", "8", "9", "8", "2", "2", "5", "e", "d", "0",
                   "5", "b", "e", "9", "1", "1", "d", "3", "7", "0", "9", "d", "9", "4",
                   "1", "7", "e", "8", "6", "e", "0", "b", "4", "c", "f", "c", "8", "f">>,
     chain |-> "Scroll"],
    [pattern |-> <<"0", "x", "4", "f", "2", "5", "0", "b", "0", "5", "2", "6", "2", "2",
                   "4", "0", "c", "7", "8", "7", "a", "1", "e", "e", "2", "2", "2", "6",
                   "8", "7", "c", "6", "e", "c", "3", "9", "5", "c", "6", "2", "8", "a">>,
     chain |-> "Scroll"],
    [pattern |-> <<"0", "x", "b", "4", "a", "0", "4", "5", "0", "5", "a", "4", "8", "7",
                   "f", "c", "f", "1", "6", "2", "3", "2", "d", "7", "4", "e", "b", "b",
                   "7", "6", "4", "2", "9", "e", "2", "3", "2", "b", "1", "f", "2", "1">>,
     chain |-> "Scroll"],
    [pattern |-> <<"0", "x", "0", "5", "4", "a", "4", "7", "b", "9", "e", "2", "a", "2",
                   "2", "a", "f", "6", "c", "0", "c", "e", "5", "5", "0", "2", "0", "2",
                   "3", "8", "c", "8", "f", "e", "c", "d", "7", "d", "3", "3", "4", "b">>,
     chain |-> "Scroll"],
    [pattern |-> <<"0", "x", "4", "1", "5", "c", "8", "8", "9", "3", "d", "5", "1", "4",
                   "f", "9", "b", "c", "5", "2", "1", "1", "d", "3", "6", "e", "e", "d",
                   "a", "4", "1", "8", "3", "2", "2", "6", "b", "8", "4", "a", "a", "7">>,
     chain |-> "Starknet"],
    [pattern |-> <<"0", "x", "2", "c", "1", "6", "9", "d", "f", "e", "5", "f", "b", "b",
                   "a", "1", "2", "9", "5", "7", "b", "d", "d", "0", "b", "a", "4", "7",
                   "d", "9", "c", "e", "d", "b", "f", "e", "2", "6", "0", "c", "a", "7">>,
     chain |-> "Starknet"],
    [pattern |-> <<"0", "x", "e", "b", "1", "8", "e", "a", "5", "d", "e", "d", "e", "e",
                   "4", "2", "e", "7", "a", "f", "3", "7", "8", "9", "9", "1", "d", "f",
                   "e", "b", "7", "1", "9", "d", "2", "1", "c", "1", "7", "b", "4", "c">>,
     chain |-> "Swell Chain"],
    [pattern |-> <<"0", "x", "a", "f", "1", "e", "4", "f", "6", "a", "4", "7", "a", "f",
                   "6", "4", "7", "f", "8", "7", "c", "0", "e", "c", "8", "1", "4", "d",
                   "8", "0", "3", "2", "c", "4", "a", "4", "b", "f", "f", "1", "4", "5">>,
     chain |-> "Zircuit"],
    [pattern |-> <<"0", "x", "a", "9", "2", "6", "8", "3", "4", "1", "8", "3", "1", "e",
                   "f", "a", "4", "9", "3", "7", "5", "3", "7", "b", "c", "3", "e", "9",
                   "e", "b", "3", "6", "d", "b", "e", "c", "e", "8", "3", "c", "7", "e">>,
     chain |-> "zkSync Era"],
    [pattern |-> <<"0", "x", "3", "d", "B", "5", "2", "c", "E", "0", "6", "5", "f", "7",
                   "2", "8", "0", "1", "1", "A", "c", "6", "7", "3", "2", "2", "2", "2",
                   "2", "7", "0", "b", "3", "F", "2", "3", "6", "0", "d", "9", "1", "9">>,
     chain |-> "zkSync Era"],
    [pattern |-> <<"0", "x", "d", "1", "9", "d", "4", "b", "5", "d", "3", "5", "8", "2",
                   "5", "8", "f", "0", "5", "d", "7", "b", "4", "1", "1", "e", "2", "1",
                   "a", "1", "4", "6", "0", "d", "1", "1", "b", "0", "8", "7", "6", "f">>,
     chain |-> "Linea"],
    [pattern |-> <<"0", "x", "c", "7", "0", "a", "e", "1", "9", "b", "5", "f", "e", "a",
                   "a", "5", "c", "1", "9", "f", "5", "7", "6", "e", "6", "2", "1", "d",
                   "2", "b", "a", "d", "9", "7", "7", "1", "8", "6", "4", "f", "e", "2">>,
     chain |-> "Linea"],
    [pattern |-> <<"0", "x", "6", "5", "1", "1", "5", "c", "6", "d", "2", "3", "2", "7",
                   "4", "e", "0", "a", "2", "9", "a", "6", "3", "b", "6", "9", "1", "3",
                   "0", "e", "f", "e", "9", "0", "1", "a", "a", "5", "2", "e", "7", "a">>,
     chain |-> "Hemi"],
    [pattern |-> <<"0", "x", "7", "7", "b", "0", "6", "4", "f", "4", "1", "8", "b", "2",
                   "7", "1", "6", "7", "b", "d", "8", "c", "6", "f", "2", "6", "3", "a",
                   "1", "6", "4", "5", "5", "e", "6", "2", "8", "b", "5", "6", "c", "b">>,
     chain |-> "Taiko"],
    [pattern |-> <<"0", "x", "f", "c", "3", "7", "5", "6", "d", "c", "8", "9", "e", "e",
                   "9", "8", "b", "0", "4", "9", "c", "1", "f", "2", "b", "0", "c", "8",
                   "e", "6", "9", "f", "0", "6", "4", "9", "e", "5", "c", "3", "e", "3">>,
     chain |-> "Taiko"],
    [pattern |-> <<"0", "x", "4", "b", "2", "d", "0", "3", "6", "d", "2", "c", "2", "7",
                   "1", "9", "2", "5", "4", "9", "a", "d", "5", "a", "2", "f", "2", "d",
                   "9", "8", "7", "5", "e", "1", "8", "4", "3", "8", "3", "3", "d", "e">>,
     chain |-> "Abstract"],
    [pattern |-> <<"0", "x", "d", "b", "b", "e", "3", "d", "8", "c", "2", "d", "2", "b",
                   "2", "2", "a", "2", "6", "1", "1", "c", "5", "a", "9", "4", "a", "9",
                   "a", "1", "2", "c", "2", "f", "c", "d", "4", "9", "e", "b", "2", "9">>,
     chain |-> "World"],
    [pattern |-> <<"0", "x", "5", "0", "0", "d", "7", "e", "a", "6", "3", "c", "f", "2",
                   "e", "5", "0", "1", "d", "a", "d", "a", "a", "5", "f", "e", "e", "c",
                   "1", "f", "c", "1", "9", "f", "e", "2", "a", "a", "7", "2", "a", "c">>,
     chain |-> "Ink"],
    [pattern |-> <<"0", "x", "9", "8", "a", "9", "8", "6", "e", "e", "0", "8", "b", "f",
                   "6", "7", "c", "9", "c", "f", "c", "4", "d", "e", "2", "a", "a", "a",
                   "f", "f", "2", "d", "7", "f", "5", "6", "c", "0", "b", "c", "4", "7">>,
     chain |-> "Blast"],
    [pattern |-> <<"0", "x", "6", "2", "5", "7", "2", "6", "c", "8", "5", "8", "d", "b",
                   "f", "7", "8", "c", "0", "1", "2", "5", "4", "3", "6", "c", "9", "4",
                   "3", "b", "f", "4", "b", "4", "b", "e", "9", "d", "9", "0", "3", "3">>,
     chain |-> "Zora"],
    [pattern |-> <<"0", "x", "9", "9", "1", "9", "9", "a", "2", "2", "1", "2", "5", "0",
                   "3", "4", "c", "8", "0", "8", "f", "f", "2", "0", "f", "3", "7", "7",
                   "d", "9", "1", "1", "8", "7", "e", "8", "0", "5", "0", "f", "2", "e">>,
     chain |-> "Mode"],
    [pattern |-> <<"0", "x", "d", "1", "3", "2", "8", "c", "9", "1", "6", "7", "e", "0",
                   "6", "9", "3", "b", "6", "8", "9", "b", "5", "a", "a", "5", "a", "0",
                   "2", "4", "3", "7", "9", "d", "4", "e", "4", "3", "7", "8", "5", "8">>,
     chain |-> "Mantle"],
    [pattern |-> <<"0", "x", "c", "9", "4", "c", "2", "4", "3", "f", "8", "f", "b", "3",
                   "7", "2", "2", "3", "f", "3", "e", "b", "7", "7", "f", "1", "e", "6",
                   "d", "5", "5", "e", "0", "f", "8", "f", "9", "c", "a", "e", "f", "4">>,
     chain |-> "Metal"],
    [pattern |-> <<"0", "x", "c", "9", "4", "c", "2", "4", "3", "f", "8", "f", "b", "3",
                   "7", "2", "2", "3", "f", "3", "e", "b", "2", "f", "7", "9", "6", "1",
                   "f", "7", "0", "7", "2", "6", "0", "2", "a", "5", "1", "b", "8", "b">>,
     chain |-> "Metal"],
    [pattern |-> <<"0", "x", "3", "c", "1", "1", "c", "3", "0", "2", "5", "c", "e", "3",
                   "8", "7", "d", "7", "6", "c", "2", "e", "d", "d", "f", "1", "4", "9",
                   "3", "e", "c", "5", "5", "a", "8", "c", "c", "2", "a", "0", "f", "7">>,
     chain |-> "Cyber"],
    [pattern |-> <<"0", "x", "4", "1", "b", "8", "c", "d", "6", "7", "9", "1", "d", "e",
                   "4", "d", "8", "f", "9", "e", "0", "e", "d", "a", "9", "f", "1", "8",
                   "5", "c", "e", "1", "8", "9", "8", "f", "0", "b", "5", "b", "3", "b">>,
     chain |-> "Kroma"],
    [pattern |-> <<"0", "x", "a", "8", "c", "d", "7", "f", "4", "c", "9", "4", "e", "b",
                   "0", "f", "1", "5", "a", "5", "d", "8", "f", "5", "e", "9", "f", "9",
                   "b", "4", "e", "b", "9", "b", "2", "e", "3", "e", "b", "6", "0", "d">>,
     chain |-> "Redstone"],
    [pattern |-> <<"0", "x", "7", "f", "9", "d", "9", "c", "1", "b", "c", "e", "1", "0",
                   "6", "2", "e", "1", "0", "7", "7", "8", "4", "5", "e", "a", "3", "9",
                   "a", "0", "3", "0", "3", "4", "2", "9", "6", "0", "0", "a", "0", "6">>,
     chain |-> "Fraxtal"],
    [pattern |-> <<"0", "x", "d", "6", "c", "2", "4", "e", "7", "8", "c", "c", "7", "7",
                   "e", "4", "8", "c", "8", "7", "c", "2", "4", "6", "a", "2", "e", "0",
                   "b", "7", "d", "2", "1", "f", "f", "b", "7", "c", "1", "c", "0", "a">>,
     chain |-> "Mint"],
    [pattern |-> <<"0", "x", "6", "7", "7", "6", "b", "e", "8", "0", "d", "b", "a", "d",
                   "a", "6", "a", "0", "2", "b", "5", "f", "2", "0", "9", "5", "c", "f",
                   "1", "3", "7", "3", "4", "a", "c", "3", "0", "3", "b", "8", "d", "1">>,
     chain |-> "Soneium"],
    [pattern |-> <<"0", "x", "f", "b", "c", "0", "d", "c", "d", "6", "c", "3", "5", "1",
                   "8", "c", "b", "5", "2", "9", "b", "c", "1", "b", "5", "8", "5", "d",
                   "b", "9", "9", "2", "a", "7", "d", "4", "0", "0", "0", "5", "f", "a">>,
     chain |-> "Lighter"],
    [pattern |-> <<"0", "x", "2", "f", "6", "0", "a", "5", "1", "8", "4", "c", "6", "3",
                   "c", "a", "9", "4", "f", "8", "2", "a", "2", "7", "1", "0", "0", "6",
                   "4", "3", "d", "b", "a", "b", "e", "4", "f", "3", "f", "7", "f", "d">>,
     chain |-> "UniChain"],
    [pattern |-> <<"0", "x", "1", "f", "f", "d", "a", "8", "9", "c", "7", "5", "5", "f",
                   "6", "d", "4", "a", "f", "0", "6", "9", "8", "9", "7", "d", "7", "7",
                   "c", "c", "a", "b", "b", "5", "8", "0", "f", "d", "4", "1", "2", "a">>,
     chain |-> "Katana"],
    [pattern |-> <<"0", "x", "b", "5", "b", "d", "2", "9", "0", "e", "f", "8", "e", "f",
                   "3", "8", "4", "0", "c", "b", "8", "6", "6", "c", "7", "a", "8", "b",
                   "7", "c", "c", "9", "e", "4", "5", "f", "d", "e", "3", "a", "b", "9">>,
     chain |-> "Codex"] >>

\* bin/web.rs:192-297: the first arm whose literal equals the lowercased
\* address, else "Other"
identify_chain(address) ==
    LET addr == to_lowercase(address)
        arms == {i \in 1..Len(ChainArms) : ChainArms[i].pattern = addr}
    IN  IF arms = {} THEN "Other"
        ELSE ChainArms[CHOOSE i \in arms : \A j \in arms : i <= j].chain

----------------------------------------------------------------------------
(* The two labelling functions applied to inputs drawn from bounded sets.  *)
(* A finished call leaves its input and its return value in reader.        *)

writer == <<db, pc, notification, log, events, failure, start, hist>>

\* the largest total_blobs classified
MaxBlobCount == 20

\* The spellings of an address: as given, lower case, upper case, and lower
\* case prefix with upper case digits.
Capitalised(text) ==
    [i \in 1..Len(text) |-> IF i <= 2 THEN text[i] ELSE UpperChar(text[i])]

Spellings(text) ==
    {text, to_lowercase(text), to_uppercase(text), Capitalised(text)}

\* an address no arm lists, and one that differs from the first arm's in its
\* last character only
UnlistedAddress == [i \in 1..42 |-> IF i = 1 THEN "0" ELSE IF i = 2 THEN "x" ELSE "1"]

NearMissAddress == [ChainArms[1].pattern EXCEPT ![42] = "8"]

AddressInputs ==
    UNION {Spellings(ChainArms[i].pattern) : i \in 1..Len(ChainArms)}
      \cup Spellings(UnlistedAddress) \cup Spellings(NearMissAddress)

ClassifyRegime ==
    /\ reader = Idle
    /\ \E total_blobs \in 0..MaxBlobCount :
          reader' = [pc |-> "done", query |-> "classify_regime",
                     args |-> total_blobs,
                     response |-> classify_regime(total_blobs)]
    /\ UNCHANGED writer

IdentifyChain ==
    /\ reader = Idle
    /\ \E address \in AddressInputs :
          reader' = [pc |-> "done", query |-> "identify_chain",
                     args |-> address,
                     response |-> identify_chain(address)]
    /\ UNCHANGED writer

NextLabels == ClassifyRegime \/ IdentifyChain

SpecLabels == Init /\ [][NextLabels]_vars

Called(query) == reader.pc = "done" /\ reader.query = query

\* the bands as sets of blob counts, for a target of 10 blobs
BandOf(total_blobs) ==
    IF total_blobs \in 0..5 THEN "abundant"
    ELSE IF total_blobs \in 6..9 THEN "normal"
    ELSE IF total_blobs \in 10..12 THEN "pressured"
    ELSE IF total_blobs \in 13..15 THEN "congested"
    ELSE "saturated"

\* C16: with BLOB_TARGET = 10 every total blob count falls in exactly one
\* band, the upper bounds 50, 90, 120 and 150 per cent inclusive: 0..5
\* abundant, 6..9 normal, 10..12 pressured, 13..15 congested, 16 and more
\* saturated.
RegimeBands ==
    /\ BLOB_TARGET = 10
    /\ Called("classify_regime") => reader.response = BandOf(reader.args)
    /\ Called("classify_regime") /\ reader.args = 5 => reader.response = "abundant"
    /\ Called("classify_regime") /\ reader.args = 9 => reader.response = "normal"
    /\ Called("classify_regime") /\ reader.args \in {10, 12}
          => reader.response = "pressured"
    /\ Called("classify_regime") /\ reader.args \in {13, 15}
          => reader.response = "congested"
    /\ Called("classify_regime") /\ reader.args = 16 => reader.response = "saturated"

RegimeBoundaryClassified ==
    /\ Called("classify_regime")
    /\ reader.args = 15
    /\ reader.response = "congested"

SameIgnoringCase(x, y) ==
    /\ Len(x) = Len(y)
    /\ \A i \in 1..Len(x) : LowerChar(x[i]) = LowerChar(y[i])

\* C20: every spelling of an address the table lists maps to the label
\* listed for it, and an address the table does not list maps to "Other".
CaseInsensitiveAttribution ==
    Called("identify_chain") =>
        LET listed == {i \in 1..Len(ChainArms) :
                          SameIgnoringCase(ChainArms[i].pattern, reader.args)}
        IN  IF listed = {} THEN reader.response = "Other"
            ELSE \E i \in listed : reader.response = ChainArms[i].chain

----------------------------------------------------------------------------
(* get_chart_data (db.rs:411-473 and bin/web.rs:474-551, the same code).   *)

\* the divisor of gas_price as f64 / 1e9 (bin/web.rs:538)
Gwei == 1000000000

MaxOf(S) == CHOOSE x \in S : \A y \in S : y <= x

\* a - b on u64: the difference; below zero a panic when the build checks
\* overflow, else the wrapped value, which for 0 - 1 is u64::MAX
u64_sub(a, b, overflow_checks) ==
    IF a >= b THEN [kind |-> "value", v |-> a - b]
    ELSE IF overflow_checks THEN [kind |-> "panic"]
    ELSE [kind |-> "u64::MAX"]

\* u64::saturating_sub(a, x); u64::MAX is at least a
saturating_sub(a, x) ==
    IF x.kind = "u64::MAX" THEN 0
    ELSE IF a >= x.v THEN a - x.v ELSE 0

EmptyChartData == [status |-> "ok", labels |-> <<>>, blobs |-> <<>>,
                   gas_prices |-> <<>>]

\* for block_num in start_block..=latest_block (bin/web.rs:533-544)
RECURSIVE chart_loop(_, _, _, _, _)
chart_loop(block_data, block_num, latest_block, last_gas_price, acc) ==
    IF block_num > latest_block THEN acc
    ELSE IF block_num \in DOMAIN block_data
    THEN chart_loop(block_data, block_num + 1, latest_block,
             block_data[block_num].gas_price,
             [acc EXCEPT !.labels = Append(@, block_num),
                         !.blobs = Append(@, block_data[block_num].total_blobs),
                         !.gas_prices = Append(@,
                             Ratio(block_data[block_num].gas_price, Gwei))])
    ELSE chart_loop(block_data, block_num + 1, latest_block,
             last_gas_price,
             [acc EXCEPT !.labels = Append(@, block_num),
                         !.blobs = Append(@, 0),
                         !.gas_prices = Append(@, Ratio(last_gas_price, Gwei))])

\* The first loop reads the rows in ascending order and assigns
\* last_gas_price at each, which leaves it at the price of the last row.
get_chart_data(d, num_blocks, overflow_checks) ==
    LET latest_block == IF DOMAIN d.blocks = {} THEN 0
                        ELSE MaxOf(DOMAIN d.blocks)
        back == u64_sub(num_blocks, 1, overflow_checks)
        start_block == saturating_sub(latest_block, back)
        block_data == [n \in {k \in DOMAIN d.blocks :
                                 k >= start_block /\ k <= latest_block}
                         |-> d.blocks[n]]
        last_gas_price == IF DOMAIN block_data = {} THEN 0
                          ELSE block_data[MaxOf(DOMAIN block_data)].gas_price
    IN  IF latest_block = 0 THEN EmptyChartData
        ELSE IF back.kind = "panic" THEN [status |-> "panic"]
        ELSE chart_loop(block_data, start_block, latest_block,
                        last_gas_price, EmptyChartData)

\* the largest block number stored, and the largest window asked for
MaxBlockNumber == 4
MaxWindow == 6

\* What a chart store holds at a block number: nothing, a block without
\* blob transactions, or a block whose one blob transaction has no
\* recoverable signer.
ChartBlocks == {"absent", "plain", "blobs"}

RECURSIVE StoreOfBlocks(_, _)
StoreOfBlocks(f, n) ==
    IF n > MaxBlockNumber THEN EmptyDb
    ELSE LET d == StoreOfBlocks(f, n + 1) IN
         IF f[n] = "plain"
         THEN insert_block(d, n, 12 * n, 0, 0, 0, 1, 0)
         ELSE IF f[n] = "blobs"
         THEN insert_block(d, n, 12 * n, 1, 3, 3 * DATA_GAS_PER_BLOB, 2, 0)
         ELSE d

ChartStores == {StoreOfBlocks(f, 1) : f \in [1..MaxBlockNumber -> ChartBlocks]}

InitChart ==
    /\ db \in ChartStores
    /\ pc = "next"
    /\ notification = NoNotification
    /\ log = <<>>
    /\ events = <<>>
    /\ failure = "none"
    /\ start = db
    /\ hist = <<>>
    /\ reader = Idle

GetChartData ==
    /\ reader = Idle
    /\ \E num_blocks \in 0..MaxWindow, overflow_checks \in BOOLEAN :
          reader' = [pc |-> "done", query |-> "get_chart_data",
                     args |-> num_blocks,
                     response |-> get_chart_data(db, num_blocks, overflow_checks)]
    /\ UNCHANGED writer

\* the stored block numbers below n that are at least low
StoredBefore(d, low, n) == {k \in DOMAIN d.blocks : low <= k /\ k < n}

\* C14: a block number of the window with no blocks row reports blob count
\* 0 and the gas price of the nearest stored block below it in the window,
\* and gas price 0 when the window holds no stored block below it.  Stated
\* for windows of one block and more.
ChartGapFilling ==
    Called("get_chart_data") /\ reader.args >= 1 =>
        LET r == reader.response IN
        \A i \in 1..Len(r.labels) :
            r.labels[i] \notin DOMAIN db.blocks =>
                LET before == StoredBefore(db, r.labels[1], r.labels[i]) IN
                /\ r.blobs[i] = 0
                /\ r.gas_prices[i] =
                     IF before = {} THEN Ratio(0, Gwei)
                     ELSE Ratio(db.blocks[MaxOf(before)].gas_price, Gwei)

\* C15: for a store that is not empty, whose latest block number is L, and
\* a window of N blocks, the chart has exactly one point for each block
\* number from max(0, L - N + 1) to L, ascending, and its three series have
\* the same length.
ChartWindow ==
    Called("get_chart_data") /\ DOMAIN db.blocks # {} =>
        LET r == reader.response
            L == MaxOf(DOMAIN db.blocks)
            N == reader.args
            first == IF L - N + 1 < 0 THEN 0 ELSE L - N + 1
        IN  /\ r.status = "ok"
            /\ Len(r.labels) = L - first + 1
            /\ \A i \in 1..Len(r.labels) : r.labels[i] = first + i - 1
            /\ Len(r.blobs) = Len(r.labels)
            /\ Len(r.gas_prices) = Len(r.labels)

----------------------------------------------------------------------------
(* Requests served while blob_exex writes.  The server opens its own       *)
(* connection (bin/web.rs:299-303) and runs each statement of a handler on *)
(* its own, outside any transaction: a statement reads the store as the    *)
(* writer's last finished statement left it, and the writer may execute    *)
(* statements between two statements of one handler.                       *)

\* Address::to_string of the signers of the catalogue: "0xS1" is the first
\* address of the table in mixed case, "0xS2" an address the table does not
\* list.
AddressText(sender) ==
    IF sender = "0xS1" THEN Capitalised(ChainArms[1].pattern)
    ELSE UnlistedAddress

\* SELECT ... FROM blocks WHERE block_number = ?, then .ok()
\* (bin/web.rs:619-635)
get_block_row(d, block_number) ==
    IF block_number \in DOMAIN d.blocks THEN Some(d.blocks[block_number])
    ELSE None

\* SELECT tx_hash, sender, blob_count FROM blob_transactions WHERE
\* block_number = ?, each row mapped to a BlockTransaction
\* (bin/web.rs:641-663); the statement has no ORDER BY, so the rows are a set
get_block_transactions(d, block_number) ==
    {[tx_hash |-> d.blob_transactions[h].tx_hash,
      sender |-> d.blob_transactions[h].sender,
      blob_count |-> d.blob_transactions[h].blob_count,
      blob_size |-> d.blob_transactions[h].blob_count * BLOB_SIZE_BYTES,
      chain |-> identify_chain(AddressText(d.blob_transactions[h].sender))] :
        h \in {k \in DOMAIN d.blob_transactions :
                  d.blob_transactions[k].block_number = block_number}}

\* bin/web.rs:665-682
BlockResponse(block_number, row, transactions) ==
    [block_number |-> block_number,
     block_timestamp |-> row.block_timestamp,
     tx_count |-> row.tx_count,
     total_blobs |-> row.total_blobs,
     total_blob_size |-> row.total_blobs * BLOB_SIZE_BYTES,
     gas_used |-> row.gas_used,
     gas_price |-> row.gas_price,
     excess_blob_gas |-> row.excess_blob_gas,
     transactions |-> transactions,
     target_utilization |-> Ratio(row.total_blobs * 100, BLOB_TARGET),
     saturation_index |-> Ratio(row.total_blobs * 100, BLOB_MAX),
     regime |-> classify_regime(row.total_blobs)]

\* get_block with both statements reading the store d
get_block(d, block_number) ==
    LET row == get_block_row(d, block_number) IN
    IF row.some
    THEN Some(BlockResponse(block_number, row.v[1],
                            get_block_transactions(d, block_number)))
    ELSE None

MinOf(S) == CHOOSE x \in S : \A y \in S : x <= y

BlockRows(d) == SetToSeq(DOMAIN d.blocks)

\* The six statements of get_stats in their order (bin/web.rs:308-340):
\* COUNT(*), SUM(total_blobs), SUM(tx_count), MAX(block_number).ok(),
\* MIN(block_number).ok(), gas_price of the highest block or 0.  MAX and MIN
\* of no rows are NULL, which row.get::<u64> rejects, so .ok() is None.
stats_statement(d, k) ==
    LET numbers == BlockRows(d) IN
    IF k = 1 THEN Cardinality(DOMAIN d.blocks)
    ELSE IF k = 2
    THEN SumSeq([i \in 1..Len(numbers) |-> d.blocks[numbers[i]].total_blobs])
    ELSE IF k = 3
    THEN SumSeq([i \in 1..Len(numbers) |-> d.blocks[numbers[i]].tx_count])
    ELSE IF k = 4
    THEN IF DOMAIN d.blocks = {} THEN None ELSE Some(MaxOf(DOMAIN d.blocks))
    ELSE IF k = 5
    THEN IF DOMAIN d.blocks = {} THEN None ELSE Some(MinOf(DOMAIN d.blocks))
    ELSE IF DOMAIN d.blocks = {} THEN 0
         ELSE d.blocks[MaxOf(DOMAIN d.blocks)].gas_price

\* the response with the average taken without the guard on total_blocks
StatsResponseUnguarded(reads) ==
    [total_blocks |-> reads[1],
     total_blobs |-> reads[2],
     total_transactions |-> reads[3],
     avg_blobs_per_block |-> Ratio(reads[2], reads[1]),
     latest_block |-> reads[4],
     earliest_block |-> reads[5],
     latest_gas_price |-> reads[6]]

\* bin/web.rs:342-356
StatsResponse(reads) ==
    [total_blocks |-> reads[1],
     total_blobs |-> reads[2],
     total_transactions |-> reads[3],
     avg_blobs_per_block |-> IF reads[1] > 0 THEN Ratio(reads[2], reads[1])
                             ELSE Ratio(0, 1),
     latest_block |-> reads[4],
     earliest_block |-> reads[5],
     latest_gas_price |-> reads[6]]

\* get_stats with its six statements reading the store d
get_stats(d) == StatsResponse([k \in 1..6 |-> stats_statement(d, k)])

ZeroRegimeCounts == [abundant |-> 0, normal |-> 0, pressured |-> 0,
                     congested |-> 0, saturated |-> 0]

ZeroPeriodStats ==
    [total_blobs |-> 0, total_transactions |-> 0,
     avg_blobs_per_block |-> Ratio(0, 1), avg_gas_price |-> Ratio(0, 1),
     avg_utilization |-> Ratio(0, 1), avg_saturation |-> Ratio(0, 1),
     block_count |-> 0, regime_counts |-> ZeroRegimeCounts]

\* bin/web.rs:703-780: one SELECT over start_time <= block_timestamp <
\* end_time, then sums, regime counts and means of the rows it returned.
\* The f64 sums of utilization and saturation are kept as the exact sums.
compute_period_stats(d, start_time, end_time) ==
    LET numbers == SetToSeq({n \in DOMAIN d.blocks :
                               /\ d.blocks[n].block_timestamp >= start_time
                               /\ d.blocks[n].block_timestamp < end_time})
        rows == [i \in 1..Len(numbers) |-> d.blocks[numbers[i]]]
        block_count == Len(rows)
        total_blobs == SumSeq([i \in 1..Len(rows) |-> rows[i].total_blobs])
        total_transactions == SumSeq([i \in 1..Len(rows) |-> rows[i].tx_count])
        total_gas_price == SumSeq([i \in 1..Len(rows) |-> rows[i].gas_price])
        CountOf(regime) ==
            Cardinality({i \in 1..Len(rows) :
                            classify_regime(rows[i].total_blobs) = regime})
    IN  IF block_count = 0 THEN ZeroPeriodStats
        ELSE [total_blobs |-> total_blobs,
              total_transactions |-> total_transactions,
              avg_blobs_per_block |-> Ratio(total_blobs, block_count),
              avg_gas_price |-> Ratio(total_gas_price, block_count),
              avg_utilization |->
                  Ratio(total_blobs * 100, BLOB_TARGET * block_count),
              avg_saturation |->
                  Ratio(total_blobs * 100, BLOB_MAX * block_count),
              block_count |-> block_count,
              regime_counts |->
                  [abundant |-> CountOf("abundant"),
                   normal |-> CountOf("normal"),
                   pressured |-> CountOf("pressured"),
                   congested |-> CountOf("congested"),
                   saturated |-> CountOf("saturated")]]

\* the start of the k-th window: 1 hour, 24 hours, 7 days before now
\* (bin/web.rs:699-701)
WindowStart(now, k) ==
    IF k = 1 THEN now - 3600
    ELSE IF k = 2 THEN now - 86400
    ELSE now - (7 * 86400)

\* bin/web.rs:786-794
RollingResponse(reads) ==
    [hour_1 |-> reads[1], hour_24 |-> reads[2], baseline_7d |-> reads[3],
     blob_target |-> BLOB_TARGET, blob_max |-> BLOB_MAX]

\* get_rolling_comparison with its three statements reading the store d
get_rolling_comparison(d, now) ==
    RollingResponse([k \in 1..3 |->
                        compute_period_stats(d, WindowStart(now, k), now)])

\* the notifications blob_exex takes while a request is served
MaxReadNotifs == 2

\* the block numbers asked of get_block
ReadBlockNumbers == {1, 2}

\* SystemTime::now() in seconds (bin/web.rs:694-697): with the block
\* timestamps 12, 13 and 24 of the catalogue, clocks that put some, one or
\* none of the blocks in the last hour
Clock == {20, 3620, 86420}

ReceiveWhileServing ==
    /\ Len(hist) < MaxReadNotifs
    /\ Receive

\* get_block, first statement; Json(None) when there is no row
GetBlockRow ==
    /\ reader = Idle
    /\ \E block_number \in ReadBlockNumbers :
          LET row == get_block_row(db, block_number) IN
          reader' = IF row.some
                    THEN [pc |-> "get_block", query |-> "get_block",
                          args |-> block_number, reads |-> <<row.v[1]>>]
                    ELSE [pc |-> "done", query |-> "get_block",
                          args |-> block_number, response |-> None]
    /\ UNCHANGED writer

\* get_block, second statement, and the response
GetBlockTransactions ==
    /\ reader.pc = "get_block"
    /\ reader' = [pc |-> "done", query |-> "get_block", args |-> reader.args,
                  response |-> Some(BlockResponse(reader.args, reader.reads[1],
                                   get_block_transactions(db, reader.args)))]
    /\ UNCHANGED writer

\* get_stats: its next statement, and the response after the sixth
GetStatsStatement ==
    /\ reader = Idle \/ reader.pc = "get_stats"
    /\ LET reads == IF reader = Idle THEN <<>> ELSE reader.reads
           read == Append(reads, stats_statement(db, Len(reads) + 1))
       IN  reader' = IF Len(read) = 6
                     THEN [pc |-> "done", query |-> "get_stats",
                           args |-> <<>>, response |-> StatsResponse(read)]
                     ELSE [pc |-> "get_stats", query |-> "get_stats",
                           args |-> <<>>, reads |-> read]
    /\ UNCHANGED writer

\* get_rolling_comparison: now is read once, then one statement for each
\* window, and the response after the third
GetRollingStatement ==
    /\ reader = Idle \/ reader.pc = "get_rolling_comparison"
    /\ \E clock \in Clock :
          LET now == IF reader = Idle THEN clock ELSE reader.args
              reads == IF reader = Idle THEN <<>> ELSE reader.reads
              k == Len(reads) + 1
              read == Append(reads,
                        compute_period_stats(db, WindowStart(now, k), now))
          IN  reader' = IF Len(read) = 3
                        THEN [pc |-> "done",
                              query |-> "get_rolling_comparison",
                              args |-> now, response |-> RollingResponse(read)]
                        ELSE [pc |-> "get_rolling_comparison",
                              query |-> "get_rolling_comparison",
                              args |-> now, reads |-> read]
    /\ UNCHANGED writer

NextRead ==
    \/ ReceiveWhileServing
    \/ StreamEnd
    \/ StreamError
    \/ ExecDeleteBlock
    \/ ExecInsertBlobTransaction
    \/ ExecInsertBlobHash
    \/ ExecUpdateSender
    \/ ExecInsertBlock
    \/ StoreFailure
    \/ SendFinishedHeight
    \/ SendFailure
    \/ GetBlockRow
    \/ GetBlockTransactions
    \/ GetStatsStatement
    \/ GetRollingStatement

SpecRead == Init /\ [][NextRead]_vars

\* what a statement of the writer makes of the store
ApplyStmt(d, s) ==
    IF s.op = "delete_block" THEN delete_block(d, s.block_number)
    ELSE IF s.op = "insert_blob_transaction"
    THEN insert_blob_transaction(d, s.tx_hash, s.block_number, s.sender,
                                 s.blob_count, s.gas_price, s.created_at)
    ELSE IF s.op = "insert_blob_hash"
    THEN insert_blob_hash(d, s.tx_hash, s.blob_hash, s.blob_index)
    ELSE IF s.op = "update_sender" THEN update_sender(d, s.sender, s.num_blobs)
    ELSE insert_block(d, s.block_number, s.block_timestamp, s.tx_count,
                      s.total_blobs, s.gas_used, s.gas_price, s.excess_blob_gas)

RECURSIVE ApplyAll(_, _)
ApplyAll(d, ss) ==
    IF ss = <<>> THEN d
    ELSE Strict2(ApplyAll, ApplyStmt(d, Head(ss)), Tail(ss))

\* the store after each prefix of the statements ss executed from d
StatesAlong(d, ss) == {ApplyAll(d, SubSeq(ss, 1, k)) : k \in 0..Len(ss)}

\* every state the store has been in: the empty store and the store after
\* each statement the writer has executed
StoreStates ==
    {EmptyDb}
      \cup UNION {StatesAlong(IF i = 1 THEN EmptyDb ELSE hist[i - 1].db,
                              notification_stmts(hist[i].notification)) :
                    i \in 1..Len(hist)}
      \cup StatesAlong(start, log)

\* C13: the response of get_block and of get_stats, served while the writer
\* runs, equals what the handler returns on one state the store has been
\* in: the store after some single statement of the writer.
SnapshotRead ==
    /\ Called("get_block") =>
          \E d \in StoreStates : reader.response = get_block(d, reader.args)
    /\ Called("get_stats") =>
          \E d \in StoreStates : reader.response = get_stats(d)

RegimeSum(counts) ==
    counts.abundant + counts.normal + counts.pressured + counts.congested
      + counts.saturated

\* C17: in the rolling comparison a window without blocks is all zero, the
\* five regime counts of a window with blocks sum to its block count, and
\* the block counts do not decrease from 1 hour to 24 hours to 7 days.
RollingWindows ==
    Called("get_rolling_comparison") =>
        LET r == reader.response
            windows == <<r.hour_1, r.hour_24, r.baseline_7d>>
        IN  /\ \A k \in 1..3 :
                  /\ windows[k].block_count = 0 => windows[k] = ZeroPeriodStats
                  /\ RegimeSum(windows[k].regime_counts) = windows[k].block_count
                  /\ windows[k].avg_blobs_per_block.den > 0
            /\ r.hour_1.block_count <= r.hour_24.block_count
            /\ r.hour_24.block_count <= r.baseline_7d.block_count

----------------------------------------------------------------------------
(* get_congestion_heatmap (bin/web.rs:936-1024): one statement.            *)

\* the largest day count asked for
MaxDays == 2

ZeroCell(day, hour) ==
    [day_of_week |-> day, hour |-> hour, avg_utilization |-> Ratio(0, 1),
     avg_saturation |-> Ratio(0, 1), avg_gas_price |-> Ratio(0, 1),
     block_count |-> 0]

\* bin/web.rs:969-972: the epoch was a Thursday, day 4
day_of_week_of(timestamp) == ((timestamp \div 86400) + 4) % 7

hour_of(timestamp) == (timestamp % 86400) \div 3600

\* bin/web.rs:942-1023.  avg_utilization is (avg_blobs / BLOB_TARGET) * 100
\* with avg_blobs = total_blobs / block_count, kept as one exact ratio.
get_congestion_heatmap(d, days, now) ==
    LET time_limit == now - (days * 86400)
        rows == {n \in DOMAIN d.blocks : d.blocks[n].block_timestamp >= time_limit}
        CellRows(day, hour) ==
            SetToSeq({n \in rows :
                        /\ day_of_week_of(d.blocks[n].block_timestamp) = day
                        /\ hour_of(d.blocks[n].block_timestamp) = hour})
        Cell(day, hour) ==
            LET blocks == CellRows(day, hour)
                block_count == Len(blocks)
                total_blobs == SumSeq([i \in 1..Len(blocks) |->
                                          d.blocks[blocks[i]].total_blobs])
                total_gas == SumSeq([i \in 1..Len(blocks) |->
                                        d.blocks[blocks[i]].gas_price])
            IN  IF block_count = 0 THEN ZeroCell(day, hour)
                ELSE [day_of_week |-> day, hour |-> hour,
                      avg_utilization |->
                          Ratio(total_blobs * 100, block_count * BLOB_TARGET),
                      avg_saturation |->
                          Ratio(total_blobs * 100, block_count * BLOB_MAX),
                      avg_gas_price |-> Ratio(total_gas, block_count),
                      block_count |-> block_count]
    IN  [data |-> [i \in 1..(7 * 24) |-> Cell((i - 1) \div 24, (i - 1) % 24)],
         blob_target |-> BLOB_TARGET, blob_max |-> BLOB_MAX]

GetCongestionHeatmap ==
    /\ reader = Idle
    /\ \E days \in 0..MaxDays, now \in Clock :
          reader' = [pc |-> "done", query |-> "get_congestion_heatmap",
                     args |-> [days |-> days, now |-> now],
                     response |-> get_congestion_heatmap(db, days, now)]
    /\ UNCHANGED writer

(* get_all_time_chart_data (db.rs:526-638).                                *)

\* db.rs:534-538
BPO1_TARGET == 6
BPO1_MAX == 9
BPO2_TARGET == 10
BPO2_MAX == 15

\* web.rs:100
BPO2_TIMESTAMP == 1767747671

\* the largest target point count asked for
MaxPoints == 5

\* the upgrade timestamps asked for: before, between and after the block
\* timestamps 12, 24, 36, ... of the chart stores, and the server's own
UpgradeTimes == {0, 24, 30, BPO2_TIMESTAMP}

\* SELECT ... FROM blocks ORDER BY block_number ASC (db.rs:564-575)
RECURSIVE RowsAscending(_, _)
RowsAscending(d, numbers) ==
    IF numbers = {} THEN <<>>
    ELSE <<d.blocks[MinOf(numbers)]>>
           \o RowsAscending(d, numbers \ {MinOf(numbers)})

\* the parameters with the upgrade taking effect after its timestamp
blob_params_after(timestamp, bpo2_timestamp) ==
    IF timestamp > bpo2_timestamp THEN <<BPO2_TARGET, BPO2_MAX>>
    ELSE <<BPO1_TARGET, BPO1_MAX>>

\* db.rs:608-613
blob_params_at(timestamp, bpo2_timestamp) ==
    IF timestamp >= bpo2_timestamp THEN <<BPO2_TARGET, BPO2_MAX>>
    ELSE <<BPO1_TARGET, BPO1_MAX>>

EmptyAllTimeChartData ==
    [status |-> "ok", labels |-> <<>>, blobs |-> <<>>, gas_prices |-> <<>>,
     timestamps |-> <<>>, targets |-> <<>>, maxes |-> <<>>, bpo2_block |-> None]

\* the point of a chunk taken from its first row
ChunkPointFirst(chunk, bpo2_timestamp) ==
    LET row == chunk[1]
    IN  [label |-> row.block_number,
         blobs |-> Ratio(SumSeq([k \in 1..Len(chunk) |-> chunk[k].total_blobs]),
                         Len(chunk)),
         gas_price |-> Ratio(Ratio(SumSeq([k \in 1..Len(chunk) |->
                                               chunk[k].gas_price]), Gwei),
                             Len(chunk)),
         timestamp |-> row.block_timestamp,
         params |-> blob_params_at(row.block_timestamp, bpo2_timestamp)]

\* the point of a chunk: its middle row's number and timestamp, the means
\* of its blob counts and of its gas prices / 1e9 (db.rs:592-620)
ChunkPoint(chunk, bpo2_timestamp) ==
    LET mid == Len(chunk) \div 2
        row == chunk[mid + 1]
    IN  [label |-> row.block_number,
         blobs |-> Ratio(SumSeq([k \in 1..Len(chunk) |-> chunk[k].total_blobs]),
                         Len(chunk)),
         gas_price |-> Ratio(Ratio(SumSeq([k \in 1..Len(chunk) |->
                                               chunk[k].gas_price]), Gwei),
                             Len(chunk)),
         timestamp |-> row.block_timestamp,
         params |-> blob_params_at(row.block_timestamp, bpo2_timestamp)]

\* while i < rows.len() (db.rs:587-623); i counts from 0, chunk is
\* rows[i..end]
RECURSIVE all_time_loop(_, _, _, _, _)
all_time_loop(rows, i, sample_interval, bpo2_timestamp, acc) ==
    IF i >= Len(rows) THEN acc
    ELSE LET end == IF i + sample_interval < Len(rows)
                    THEN i + sample_interval ELSE Len(rows)
             chunk == SubSeq(rows, i + 1, end)
             point == ChunkPoint(chunk, bpo2_timestamp)
         IN  all_time_loop(rows, end, sample_interval, bpo2_timestamp,
                 [acc EXCEPT !.labels = Append(@, point.label),
                             !.blobs = Append(@, point.blobs),
                             !.gas_prices = Append(@, point.gas_price),
                             !.timestamps = Append(@, point.timestamp),
                             !.targets = Append(@, point.params[1]),
                             !.maxes = Append(@, point.params[2])])

\* rows.iter().find(|ts >= bpo2_timestamp|).map(|bn|) (db.rs:578-581)
find_bpo2_block(rows, bpo2_timestamp) ==
    LET at == {k \in 1..Len(rows) : rows[k].block_timestamp >= bpo2_timestamp}
    IN  IF at = {} THEN None ELSE Some(rows[MinOf(at)].block_number)

\* db.rs:526-638.  MIN and MAX of no rows are NULL, which row.get::<u64>
\* rejects, so the pair is (0, 0); total_blocks / target_points panics for
\* target_points = 0.
get_all_time_chart_data(d, target_points, bpo2_timestamp) ==
    LET min_block == IF DOMAIN d.blocks = {} THEN 0 ELSE MinOf(DOMAIN d.blocks)
        max_block == IF DOMAIN d.blocks = {} THEN 0 ELSE MaxOf(DOMAIN d.blocks)
        total_blocks == max_block - min_block + 1
        quotient == total_blocks \div target_points
        sample_interval == IF quotient > 1 THEN quotient ELSE 1
        Series(rows) ==
            [all_time_loop(rows, 0, sample_interval, bpo2_timestamp,
                           EmptyAllTimeChartData)
                EXCEPT !.bpo2_block = find_bpo2_block(rows, bpo2_timestamp)]
    IN  IF max_block = 0 THEN EmptyAllTimeChartData
        ELSE IF target_points = 0 THEN [status |-> "panic"]
        ELSE Strict1(Series, RowsAscending(d, DOMAIN d.blocks))

GetAllTimeChartData ==
    /\ reader = Idle
    /\ \E target_points \in 0..MaxPoints, bpo2_timestamp \in UpgradeTimes :
          reader' = [pc |-> "done", query |-> "get_all_time_chart_data",
                     args |-> [target_points |-> target_points,
                               bpo2_timestamp |-> bpo2_timestamp],
                     response |-> get_all_time_chart_data(db, target_points,
                                                          bpo2_timestamp)]
    /\ UNCHANGED writer

NextAnalytics == GetChartData \/ GetCongestionHeatmap \/ GetAllTimeChartData

SpecAnalytics == InitChart /\ [][NextAnalytics]_vars

\* C18: the heatmap has exactly 168 cells, one for each pair of a day of
\* the week 0..6 and an hour 0..23; a cell without blocks is all zero; and
\* the block counts of the cells sum to the number of blocks rows whose
\* timestamp lies between now - D * 86400 and now.
HeatmapComplete ==
    Called("get_congestion_heatmap") =>
        LET data == reader.response.data
            D == reader.args.days
            now == reader.args.now
            inWindow == {n \in DOMAIN db.blocks :
                            /\ db.blocks[n].block_timestamp >= now - D * 86400
                            /\ db.blocks[n].block_timestamp <= now}
        IN  /\ Len(data) = 168
            /\ \A day \in 0..6, hour \in 0..23 :
                  Cardinality({i \in 1..Len(data) :
                                  /\ data[i].day_of_week = day
                                  /\ data[i].hour = hour}) = 1
            /\ \A i \in 1..Len(data) :
                  data[i].block_count = 0 =>
                      data[i] = ZeroCell(data[i].day_of_week, data[i].hour)
            /\ LET filled == SelectSeq(data, LAMBDA c : c.block_count # 0) IN
               SumSeq([i \in 1..Len(filled) |-> filled[i].block_count])
                  = Cardinality(inWindow)

----------------------------------------------------------------------------------------------------------------------------------------
(* f64 arithmetic on whole numbers.  calculate_correlation adds, subtracts *)
(* and multiplies f64 values that are whole numbers (counts, prices in wei *)
(* and their sums and products).  Such a value is kept as a sign and a     *)
(* magnitude; the magnitude is the sequence of its digits in base 2^13,    *)
(* least significant first, without leading zeros.  Every operation rounds *)
(* its exact result to the 53 significant bits of an f64, ties to even.    *)
(* The magnitudes stay far below 2^1024.                                   *)

\* the significant bits of an f64
F64_MANTISSA_DIGITS == 53

LimbBits == 13
Limb == 2 ^ LimbBits

RECURSIVE Limbs(_)
Limbs(n) == IF n = 0 THEN <<>> ELSE <<n % Limb>> \o Limbs(n \div Limb)

TrimValue(a) ==
    LET used == {i \in 1..Len(a) : a[i] # 0} IN
    IF used = {} THEN <<>> ELSE SubSeq(a, 1, MaxOf(used))

\* a without its leading zeros
Trim(x) == Strict1(TrimValue, x)

LimbAt(a, i) == IF i <= Len(a) THEN a[i] ELSE 0

\* the carry into digit i of a + b: a lower digit generates a carry and
\* every digit between passes it on
CarryInto(a, b, i) ==
    IF \E j \in 1..(i - 1) :
          /\ LimbAt(a, j) + LimbAt(b, j) >= Limb
          /\ \A m \in (j + 1)..(i - 1) : LimbAt(a, m) + LimbAt(b, m) = Limb - 1
    THEN 1 ELSE 0

MagAddValue(a, b) ==
    LET width == (IF Len(a) > Len(b) THEN Len(a) ELSE Len(b)) + 1 IN
    Trim([i \in 1..width |->
             (LimbAt(a, i) + LimbAt(b, i) + CarryInto(a, b, i)) % Limb])

MagAdd(x, y) == Strict2(MagAddValue, x, y)

\* the borrow into digit i of a - b
BorrowInto(a, b, i) ==
    IF \E j \in 1..(i - 1) :
          /\ LimbAt(a, j) < LimbAt(b, j)
          /\ \A m \in (j + 1)..(i - 1) : LimbAt(a, m) = LimbAt(b, m)
    THEN 1 ELSE 0

MagSubValue(a, b) ==
    Trim([i \in 1..Len(a) |->
             (LimbAt(a, i) - LimbAt(b, i) - BorrowInto(a, b, i) + Limb) % Limb])

\* a - b for a >= b
MagSub(x, y) == Strict2(MagSubValue, x, y)

MagLess(a, b) ==
    \/ Len(a) < Len(b)
    \/ /\ Len(a) = Len(b)
       /\ \E i \in 1..Len(a) :
             /\ a[i] < b[i]
             /\ \A j \in (i + 1)..Len(a) : a[j] = b[j]

\* the sum of the digit products a[i] * b[j] with i + j = k + 1
Column(a, b, k) ==
    SumSeq([i \in 1..Len(a) |->
               IF k + 1 - i \in 1..Len(b) THEN a[i] * b[k + 1 - i] ELSE 0])

RECURSIVE Carried(_, _, _)
Carried(columns, k, carry) ==
    IF k > Len(columns) THEN Limbs(carry)
    ELSE <<(columns[k] + carry) % Limb>>
           \o Carried(columns, k + 1, (columns[k] + carry) \div Limb)

MagMulValue(a, b) ==
    IF a = <<>> \/ b = <<>> THEN <<>>
    ELSE Trim(Carried(SubSeq([k \in 1..(Len(a) + Len(b)) |-> Column(a, b, k)],
                             1, Len(a) + Len(b)), 1, 0))

MagMul(x, y) == Strict2(MagMulValue, x, y)

\* the number of bits of a magnitude
BitLength(a) ==
    IF a = <<>> THEN 0
    ELSE (Len(a) - 1) * LimbBits
           + (CHOOSE n \in 1..LimbBits :
                 2 ^ (n - 1) <= a[Len(a)] /\ a[Len(a)] < 2 ^ n)

\* bit i of a magnitude, the least significant being bit 1
BitAt(a, i) ==
    (LimbAt(a, ((i - 1) \div LimbBits) + 1) \div (2 ^ ((i - 1) % LimbBits))) % 2

\* 2^k
MagPow2(k) == [i \in 1..(k \div LimbBits) |-> 0] \o <<2 ^ (k % LimbBits)>>

\* a with its k lowest bits cleared
ClearLow(a, k) ==
    [i \in 1..Len(a) |->
        IF i <= k \div LimbBits THEN 0
        ELSE IF i = (k \div LimbBits) + 1
        THEN (a[i] \div (2 ^ (k % LimbBits))) * (2 ^ (k % LimbBits))
        ELSE a[i]]

RoundToF64Value(a) ==
    IF BitLength(a) <= F64_MANTISSA_DIGITS THEN a
    ELSE LET k == BitLength(a) - F64_MANTISSA_DIGITS
             up == /\ BitAt(a, k) = 1
                   /\ \/ \E i \in 1..(k - 1) : BitAt(a, i) = 1
                      \/ BitAt(a, k + 1) = 1
         IN  IF up THEN MagAdd(ClearLow(a, k), MagPow2(k))
             ELSE Trim(ClearLow(a, k))

\* the f64 nearest to the magnitude a, ties to even
RoundToF64(x) == Strict1(RoundToF64Value, x)

F64(neg, mag) == [neg |-> neg /\ mag # <<>>, mag |-> mag]

\* u64 as f64
as_f64(n) == F64(FALSE, RoundToF64(Limbs(n)))

F64AddValue(a, b) ==
    IF a.neg = b.neg THEN F64(a.neg, RoundToF64(MagAdd(a.mag, b.mag)))
    ELSE IF MagLess(a.mag, b.mag)
    THEN F64(b.neg, RoundToF64(MagSub(b.mag, a.mag)))
    ELSE F64(a.neg, RoundToF64(MagSub(a.mag, b.mag)))

f64_add(x, y) == Strict2(F64AddValue, x, y)

F64Neg(a) == F64(~a.neg, a.mag)

f64_sub(x, y) == f64_add(x, Strict1(F64Neg, y))

F64MulValue(a, b) == F64(a.neg # b.neg, RoundToF64(MagMul(a.mag, b.mag)))

f64_mul(x, y) == Strict2(F64MulValue, x, y)

\* Iterator::sum over f64: a left fold from 0.0
RECURSIVE F64SumValue(_, _)
F64SumValue(acc, xs) ==
    IF xs = <<>> THEN acc
    ELSE Strict2(F64SumValue, f64_add(acc, Head(xs)), Tail(xs))

f64_sum(acc, xs) == Strict2(F64SumValue, acc, xs)

F64Zero == F64(FALSE, <<>>)

\* the value of a magnitude TLC can hold
RECURSIVE MagValue(_)
MagValue(a) == IF a = <<>> THEN 0 ELSE Head(a) + Limb * MagValue(Tail(a))

\* bin/web.rs:913-933.  The result is 0.0, NaN (the square root of a
\* negative product), or the quotient of the numerator and the square root
\* of the radicand, which is kept as that pair.
Correlation(x, y) ==
    IF Len(x) # Len(y) \/ x = <<>> THEN [kind |-> "zero"]
    ELSE LET Terms(n, sum_x, sum_y, sum_xy, sum_x2, sum_y2) ==
                 <<f64_sub(f64_mul(n, sum_xy), f64_mul(sum_x, sum_y)),
                   f64_mul(f64_sub(f64_mul(n, sum_x2), f64_mul(sum_x, sum_x)),
                           f64_sub(f64_mul(n, sum_y2), f64_mul(sum_y, sum_y)))>>
             Result(terms) ==
                 LET numerator == terms[1]
                     radicand == terms[2]
                 IN  IF radicand.neg THEN [kind |-> "NaN"]
                     ELSE IF radicand.mag = <<>> THEN [kind |-> "zero"]
                     ELSE IF numerator.mag = <<>> THEN [kind |-> "zero"]
                     ELSE [kind |-> "quotient", numerator |-> numerator,
                           radicand |-> radicand]
         IN  Strict1(Result,
                 Terms(as_f64(Len(x)),
                       f64_sum(F64Zero, x),
                       f64_sum(F64Zero, y),
                       f64_sum(F64Zero,
                           SubSeq([i \in 1..Len(x) |-> f64_mul(x[i], y[i])],
                                  1, Len(x))),
                       f64_sum(F64Zero,
                           SubSeq([i \in 1..Len(x) |-> f64_mul(x[i], x[i])],
                                  1, Len(x))),
                       f64_sum(F64Zero,
                           SubSeq([i \in 1..Len(y) |-> f64_mul(y[i], y[i])],
                                  1, Len(y)))))

calculate_correlation(x, y) == Strict2(Correlation, x, y)

----------------------------------------------------------------------------
(* get_chain_profiles (bin/web.rs:797-910): one statement, then the        *)
(* profile of each chain label.                                            *)

\* the characters of an address in the order of their bytes, which is the
\* order of SQLite's ORDER BY on text
ByteOrder == <<"0", "1", "2", "3", "4", "5", "6", "7", "8", "9">>
               \o UpperLetters \o LowerLetters

ByteRank(c) == CHOOSE i \in 1..Len(ByteOrder) : ByteOrder[i] = c

TextLess(a, b) ==
    \/ \E i \in 1..Len(a) :
          /\ i <= Len(b)
          /\ ByteRank(a[i]) < ByteRank(b[i])
          /\ \A j \in 1..(i - 1) : a[j] = b[j]
    \/ /\ Len(a) < Len(b)
       /\ \A j \in 1..Len(a) : a[j] = b[j]

\* ORDER BY bt.sender, bt.created_at
RowBefore(r1, r2) ==
    \/ TextLess(AddressText(r1.sender), AddressText(r2.sender))
    \/ r1.sender = r2.sender /\ r1.created_at < r2.created_at

\* the rows in the order of the statement; rows equal in sender and
\* created_at come in an order SQL does not fix
RECURSIVE OrderedRows(_)
OrderedRows(rows) ==
    IF rows = {} THEN <<>>
    ELSE LET first == CHOOSE r \in rows : \A q \in rows : ~RowBefore(q, r)
         IN  <<first>> \o OrderedRows(rows \ {first})

NoSensitivity == [kind |-> "zero"]

\* bin/web.rs:840-905: the profile of one chain label.  The intervals
\* between consecutive sorted timestamps sum to the last minus the first.
chain_profile(chain, txs, grand_total_blobs) ==
    LET total_transactions == Len(txs)
        total_blobs == SumSeq([i \in 1..Len(txs) |-> txs[i].blob_count])
        timestamps == {txs[i].created_at : i \in 1..Len(txs)}
        hourly_counts ==
            [h \in 1..24 |->
                Cardinality({i \in 1..Len(txs) : hour_of(txs[i].created_at) = h - 1})]
        max_count == MaxOf({hourly_counts[h] : h \in 1..24})
    IN  [chain |-> chain,
         total_transactions |-> total_transactions,
         total_blobs |-> total_blobs,
         percentage |-> IF grand_total_blobs > 0
                        THEN Ratio(total_blobs * 100, grand_total_blobs)
                        ELSE Ratio(0, 1),
         avg_blobs_per_tx |-> Ratio(total_blobs, total_transactions),
         avg_posting_interval_secs |->
             IF Len(txs) > 1
             THEN Ratio(MaxOf(timestamps) - MinOf(timestamps), Len(txs) - 1)
             ELSE Ratio(0, 1),
         hourly_activity |-> [h \in 1..24 |-> Ratio(hourly_counts[h], max_count)],
         price_sensitivity |->
             IF Len(txs) > 10
             THEN calculate_correlation(
                      SubSeq([i \in 1..Len(txs) |-> as_f64(txs[i].gas_price)],
                             1, Len(txs)),
                      SubSeq([i \in 1..Len(txs) |-> as_f64(txs[i].blob_count)],
                             1, Len(txs)))
             ELSE NoSensitivity]

RowChain(row) == identify_chain(AddressText(row.sender))

\* bin/web.rs:797-910.  The profiles are sorted by total_blobs, largest
\* first, profiles of equal total_blobs in the order of a HashMap's
\* iteration; the response is kept as the set of the profiles.
get_chain_profiles(d, hours, now) ==
    LET time_limit == now - (hours * 3600)
        Profiles(rows) ==
            LET grand_total_blobs ==
                    SumSeq([i \in 1..Len(rows) |-> rows[i].blob_count])
                chains == {RowChain(rows[i]) : i \in 1..Len(rows)}
            IN  {chain_profile(chain,
                     SelectSeq(rows, LAMBDA row : RowChain(row) = chain),
                     grand_total_blobs) : chain \in chains}
    IN  Strict1(Profiles,
            OrderedRows({d.blob_transactions[h] :
                           h \in {k \in DOMAIN d.blob_transactions :
                                     d.blob_transactions[k].created_at >= time_limit}}))

\* The stores of the profiles: blocks 1..n, twelve seconds apart, each
\* with one blob transaction.
MinTxs == 10
MaxTxs == 12
MaxHours == 1

ProfileHashes == <<"0xp01", "0xp02", "0xp03", "0xp04", "0xp05", "0xp06", "0xp07",
                   "0xp08", "0xp09", "0xp10", "0xp11", "0xp12", "0xp13", "0xp14">>

\* The blob fee of block i: 1 wei in every block, 100000002 wei in every
\* block, or i wei.
PriceSeries == {"flat", "flat_high", "rising"}

ProfilePrice(series, i) ==
    IF series = "flat" THEN 1
    ELSE IF series = "flat_high" THEN 100000002
    ELSE i

\* The blobs of transaction i: one each, one each but two in the last, or
\* one and two in turn.
BlobSeries == {"flat", "last", "alternate"}

ProfileBlobs(series, i, n) ==
    IF series = "flat" THEN <<"0xh1">>
    ELSE IF series = "last" THEN (IF i = n THEN <<"0xh1", "0xh2">> ELSE <<"0xh1">>)
    ELSE IF i % 2 = 0 THEN <<"0xh1", "0xh2">> ELSE <<"0xh1">>

\* the signer of transaction i: one signer for all, or two in turn
SignerSeries == {"one", "two"}

ProfileSigner(series, i) ==
    IF series = "one" \/ i % 2 = 1 THEN "0xS1" ELSE "0xS2"

ProfileChain(n, prices, blobs, signers) ==
    [i \in 1..n |->
        [number |-> i, hash |-> "0xbp", timestamp |-> 12 * i,
         blob_fee |-> Some(ProfilePrice(prices, i)),
         excess_blob_gas |-> Some(0),
         transactions |->
            <<[tx_hash |-> ProfileHashes[i], tx_type |-> 3,
               blob_versioned_hashes |-> Some(ProfileBlobs(blobs, i, n)),
               recover_signer |-> Some(ProfileSigner(signers, i))]>>]]

ProfileStores ==
    {ApplyAll(EmptyDb, process_chain(ProfileChain(n, prices, blobs, signers))) :
        n \in MinTxs..MaxTxs, prices \in PriceSeries, blobs \in BlobSeries,
        signers \in SignerSeries}

\* clocks that put all the transactions, or all but the first, in the last
\* hour
ProfileClock == {150, 3620}

InitProfiles ==
    /\ db \in ProfileStores
    /\ pc = "next"
    /\ notification = NoNotification
    /\ log = <<>>
    /\ events = <<>>
    /\ failure = "none"
    /\ start = db
    /\ hist = <<>>
    /\ reader = Idle

GetChainProfiles ==
    /\ reader = Idle
    /\ \E hours \in 0..MaxHours, now \in ProfileClock :
          reader' = [pc |-> "done", query |-> "get_chain_profiles",
                     args |-> [hours |-> hours, now |-> now],
                     response |-> get_chain_profiles(db, hours, now)]
    /\ UNCHANGED writer

NextProfiles == GetChainProfiles

SpecProfiles == InitProfiles /\ [][NextProfiles]_vars

\* the blob_transactions rows of a chain label in the window of a request
GroupRows(d, chain, time_limit) ==
    {d.blob_transactions[h] :
        h \in {k \in DOMAIN d.blob_transactions :
                  /\ d.blob_transactions[k].created_at >= time_limit
                  /\ RowChain(d.blob_transactions[k]) = chain}}

\* n * sum(x * y) - sum(x) * sum(y) over the rows of a group, for values
\* small enough for TLC's integers; x the gas price, y the blob count
Covariance(group) ==
    LET rows == SetToSeq(group)
        Sum(f(_)) == SumSeq([i \in 1..Len(rows) |-> f(rows[i])])
        xy(r) == r.gas_price * r.blob_count
        x(r) == r.gas_price
        y(r) == r.blob_count
    IN  Len(rows) * Sum(xy) - Sum(x) * Sum(y)

\* C19: a chain label with 10 or fewer transactions in the window reports
\* price_sensitivity 0; with 11 or more it reports 0 when all its gas
\* prices are equal or all its blob counts are equal, 0 when prices and
\* blob counts are uncorrelated, and otherwise the quotient whose numerator
\* is n * sum(xy) - sum(x) * sum(y).
PriceSensitivity ==
    Called("get_chain_profiles") =>
        \A profile \in reader.response :
            LET group == GroupRows(db, profile.chain,
                             reader.args.now - reader.args.hours * 3600)
                flat == \/ \A r, q \in group : r.gas_price = q.gas_price
                        \/ \A r, q \in group : r.blob_count = q.blob_count
                result == profile.price_sensitivity
            IN  /\ Cardinality(group) <= 10 => result.kind = "zero"
                /\ Cardinality(group) >= 11 /\ flat => result.kind = "zero"
                /\ Cardinality(group) >= 11 /\ ~flat =>
                      IF Covariance(group) = 0 THEN result.kind = "zero"
                      ELSE /\ result.kind = "quotient"
                           /\ result.numerator.neg = (Covariance(group) < 0)
                           /\ MagValue(result.numerator.mag)
                                = IF Covariance(group) < 0
                                  THEN 0 - Covariance(group)
                                  ELSE Covariance(group)

----------------------------------------------------------------------------
(* The all-time series.                                                    *)

\* the k-th smallest stored block number
NthBlock(d, k) ==
    CHOOSE n \in DOMAIN d.blocks :
        Cardinality({m \in DOMAIN d.blocks : m <= n}) = k

UpgradeParameters ==
    Called("get_all_time_chart_data") /\ reader.response.status = "ok" =>
        LET r == reader.response
            T == reader.args.bpo2_timestamp
            upgraded == {n \in DOMAIN db.blocks : db.blocks[n].block_timestamp >= T}
        IN  /\ r.bpo2_block = IF upgraded = {} THEN None ELSE Some(MinOf(upgraded))
            /\ Len(r.targets) = Len(r.timestamps)
            /\ Len(r.maxes) = Len(r.timestamps)
            /\ \A j \in 1..Len(r.timestamps) :
                  IF r.timestamps[j] >= T
                  THEN r.targets[j] = 10 /\ r.maxes[j] = 15
                  ELSE r.targets[j] = 6 /\ r.maxes[j] = 9

\* a series whose first point is before the upgrade and whose second point
\* is at its timestamp
UpgradeInsideSeries ==
    /\ Called("get_all_time_chart_data")
    /\ reader.args.bpo2_timestamp = 24
    /\ reader.response.status = "ok"
    /\ reader.response.labels = <<1, 2, 3>>
    /\ reader.response.targets = <<6, 10, 10>>
    /\ reader.response.bpo2_block = Some(2)

----------------------------------------------------------------------------
(* The aggregate queries with failing reads, over stores of every kind.    *)

\* the largest LIMIT asked for
MaxLimit == 2

\* query_row(...).unwrap_or(0) and query_row(...).ok() on a read that fails
\* (db.rs:209-240, bin/web.rs:308-340): reads 4 and 5 are Options
read_or_default(value, k, failed) ==
    IF k \in failed THEN (IF k \in {4, 5} THEN None ELSE 0) ELSE value

\* the six reads of Database::get_stats (db.rs:209-240); the second is
\* SELECT COALESCE(SUM(blob_count), 0) FROM blob_transactions
Database_stats_statement(d, k) ==
    LET hashes == SetToSeq(DOMAIN d.blob_transactions) IN
    IF k = 2
    THEN SumSeq([i \in 1..Len(hashes) |->
                    d.blob_transactions[hashes[i]].blob_count])
    ELSE stats_statement(d, k)

\* Database::get_stats (db.rs:206-258); failed is the set of its reads that
\* fail
Database_get_stats(d, failed) ==
    [status |-> "ok",
     value |-> StatsResponse([k \in 1..6 |->
                  read_or_default(Database_stats_statement(d, k), k, failed)])]

\* get_stats of the standalone server (bin/web.rs:305-357) with failing reads
get_stats_reading(d, failed) ==
    [status |-> "ok",
     value |-> StatsResponse([k \in 1..6 |->
                  read_or_default(stats_statement(d, k), k, failed)])]

\* the ways the block statement of get_recent_blocks can fail: in prepare,
\* or in the step that fetches row number `row`
NoFailure == [kind |-> "none"]
PrepareFailure == [kind |-> "prepare"]
StepFailure(row) == [kind |-> "step", row |-> row]

\* the first `limit` elements
Take(rows, limit) == SubSeq(rows, 1, IF limit < Len(rows) THEN limit ELSE Len(rows))

Reverse(rows) == [k \in 1..Len(rows) |-> rows[Len(rows) + 1 - k]]

\* SELECT tx_hash, sender, blob_count FROM blob_transactions WHERE
\* block_number = ? (db.rs:294-307); no ORDER BY, so the rows are a set
TransactionData(d, block_number) ==
    {[tx_hash |-> d.blob_transactions[h].tx_hash,
      sender |-> d.blob_transactions[h].sender,
      blob_count |-> d.blob_transactions[h].blob_count] :
        h \in {k \in DOMAIN d.blob_transactions :
                  d.blob_transactions[k].block_number = block_number}}

\* Database::get_recent_blocks (db.rs:261-324): prepare(...)? returns the
\* error; a row whose step fails is dropped by filter_map(|r| r.ok()) and
\* the rows after it are never fetched
Database_get_recent_blocks(d, limit, fault) ==
    LET rows == Take(Reverse(RowsAscending(d, DOMAIN d.blocks)), limit)
        fetched == IF fault.kind = "step" /\ fault.row <= Len(rows)
                   THEN SubSeq(rows, 1, fault.row - 1) ELSE rows
    IN  IF fault.kind = "prepare" THEN [status |-> "error"]
        ELSE [status |-> "ok",
              value |-> [k \in 1..Len(fetched) |->
                           [block |-> fetched[k],
                            transactions |->
                                TransactionData(d, fetched[k].block_number)]]]

\* whether the fault happens in a read of `count` rows: the statement
\* takes one step for each row and one more to find the end
Happens(fault, count) ==
    \/ fault.kind = "prepare"
    \/ fault.kind = "step" /\ fault.row <= count + 1

\* the sequences over a set without repetition
Orders(S) ==
    {o \in [1..Cardinality(S) -> S] : \A i, j \in 1..Cardinality(S) : o[i] = o[j] => i = j}

\* Database::get_top_senders (db.rs:390-408): SELECT ... FROM senders ORDER
\* BY total_blobs DESC LIMIT ?; rows with equal totals come in any order
get_top_senders(d, limit) ==
    {Take([k \in 1..Len(o) |-> d.senders[o[k]]], limit) :
        o \in {q \in Orders(DOMAIN d.senders) :
                  \A i \in 1..(Len(q) - 1) :
                      d.senders[q[i]].total_blobs >= d.senders[q[i + 1]].total_blobs}}

\* the stores the queries are asked of: the empty one, those the writer
\* leaves after one chain, and stores of plain blocks with gaps
QueryStores ==
    {EmptyDb} \cup {ApplyAll(EmptyDb, process_chain(chain)) : chain \in Chains}
              \cup ChartStores

InitQueries ==
    /\ db \in QueryStores
    /\ pc = "next"
    /\ notification = NoNotification
    /\ log = <<>>
    /\ events = <<>>
    /\ failure = "none"
    /\ start = db
    /\ hist = <<>>
    /\ reader = Idle

GetStatsDatabase ==
    /\ reader = Idle
    /\ \E failed \in SUBSET (1..6) :
          reader' = [pc |-> "done", query |-> "Database::get_stats",
                     args |-> <<>>, failed |-> failed # {},
                     response |-> Database_get_stats(db, failed)]
    /\ UNCHANGED writer

GetStatsReading ==
    /\ reader = Idle
    /\ \E failed \in SUBSET (1..6) :
          reader' = [pc |-> "done", query |-> "get_stats",
                     args |-> <<>>, failed |-> failed # {},
                     response |-> get_stats_reading(db, failed)]
    /\ UNCHANGED writer

GetRecentBlocks ==
    /\ reader = Idle
    /\ \E limit \in 0..MaxLimit,
          fails \in {NoFailure, PrepareFailure}
                       \cup {StepFailure(row) : row \in 1..(MaxLimit + 1)} :
          reader' = [pc |-> "done", query |-> "Database::get_recent_blocks",
                     args |-> limit,
                     failed |-> Happens(fails, Len(Take(BlockRows(db), limit))),
                     response |-> Database_get_recent_blocks(db, limit, fails)]
    /\ UNCHANGED writer

GetTopSenders ==
    /\ reader = Idle
    /\ \E limit \in 0..MaxLimit :
          \E senders \in get_top_senders(db, limit) :
              reader' = [pc |-> "done", query |-> "Database::get_top_senders",
                         args |-> limit, failed |-> FALSE,
                         response |-> [status |-> "ok", value |-> senders]]
    /\ UNCHANGED writer

GetRollingComparison ==
    /\ reader = Idle
    /\ \E now \in Clock :
          reader' = [pc |-> "done", query |-> "get_rolling_comparison",
                     args |-> now,
                     response |-> get_rolling_comparison(db, now)]
    /\ UNCHANGED writer

NextQueries ==
    \/ GetStatsDatabase
    \/ GetStatsReading
    \/ GetRecentBlocks
    \/ GetTopSenders
    \/ GetChartData
    \/ GetAllTimeChartData
    \/ GetRollingComparison
    \/ GetChainProfiles
    \/ GetCongestionHeatmap

SpecQueries == InitQueries /\ [][NextQueries]_vars

ZeroStats ==
    [total_blocks |-> 0, total_blobs |-> 0, total_transactions |-> 0,
     avg_blobs_per_block |-> Ratio(0, 1), latest_block |-> None,
     earliest_block |-> None, latest_gas_price |-> 0]

\* C23: on the empty store each aggregate query -- summary statistics,
\* recent blocks, top senders, chart, all-time chart, rolling comparison,
\* chain profiles, heatmap -- answers with zeros or with nothing, and none
\* of them with an error or a panic.
EmptyStoreAnswers ==
    db = EmptyDb /\ reader.pc = "done" =>
        LET r == reader.response
            Is(query) == reader.query = query
            Working(query) == Is(query) /\ ~reader.failed
        IN  /\ Working("Database::get_stats") \/ Working("get_stats") =>
                  r = [status |-> "ok", value |-> ZeroStats]
            /\ Working("Database::get_recent_blocks") =>
                  r = [status |-> "ok", value |-> <<>>]
            /\ Working("Database::get_top_senders") =>
                  r = [status |-> "ok", value |-> <<>>]
            /\ Is("get_chart_data") => r = EmptyChartData
            /\ Is("get_all_time_chart_data") => r = EmptyAllTimeChartData
            /\ Is("get_rolling_comparison") =>
                  r = RollingResponse(<<ZeroPeriodStats, ZeroPeriodStats,
                                        ZeroPeriodStats>>)
            /\ Is("get_chain_profiles") => r = {}
            /\ Is("get_congestion_heatmap") =>
                  \A i \in 1..Len(r.data) :
                      r.data[i] = ZeroCell(r.data[i].day_of_week, r.data[i].hour)

\* the summary statistics asked of the empty store, every read working
EmptyStoreAsked ==
    /\ db = EmptyDb
    /\ Called("Database::get_stats")
    /\ ~reader.failed
    /\ reader.response.value.total_blocks = 0
    /\ reader.response.value.latest_block = None

\* C24: a query one of whose reads of the store fails answers with an
\* error: it does not answer with a zero, a default or a shortened list of
\* rows in the place of what it could not read.
ReadFailureSurfaces ==
    /\ reader.pc = "done"
    /\ reader.query \in {"Database::get_stats", "get_stats",
                         "Database::get_recent_blocks"}
    /\ reader.failed
    => reader.response.status = "error"

\* the block count read fails on a store of one block and the summary
\* statistics answer with no blocks
FabricatedZero ==
    /\ Called("Database::get_stats")
    /\ reader.failed
    /\ DOMAIN db.blocks # {}
    /\ reader.response.status = "ok"
    /\ reader.response.value.total_blocks = 0

----------------------------------------------------------------------------
(* The store against the statements blob_exex has executed.                *)

RECURSIVE Flatten(_)
Flatten(seqs) == IF seqs = <<>> THEN <<>> ELSE Head(seqs) \o Flatten(Tail(seqs))

\* a notification has been taken and is not yet among the finished ones
InHand == pc \in {"apply", "send"} \/ (pc = "failed" /\ failure # "stream")

\* every statement executed since the store was created, in order
ExecutedStmts ==
    Flatten([i \in 1..Len(hist) |-> notification_stmts(hist[i].notification)])
        \o (IF InHand THEN log ELSE <<>>)

AllTxs == {Tx1, Tx2, Tx3, Tx4}

TxOf(tx_hash) == CHOOSE tx \in AllTxs : tx.tx_hash = tx_hash

\* the positions of the statements of `ss` that insert the row of tx_hash
InsertsOf(ss, tx_hash) ==
    {k \in 1..Len(ss) : ss[k].op = "insert_blob_transaction"
                          /\ ss[k].tx_hash = tx_hash}

RECURSIVE ByIndex(_, _)
ByIndex(rows, indices) ==
    IF indices = {} THEN <<>>
    ELSE SelectSeq(rows, LAMBDA r : r.blob_index = MinOf(indices))
           \o ByIndex(rows, indices \ {MinOf(indices)})

\* the lookup with ORDER BY blob_index DESC
blob_hashes_of_descending(d, tx_hash) ==
    LET rows == SelectSeq(d.blob_hashes, LAMBDA r : r.tx_hash = tx_hash)
        sorted == ByIndex(rows, {rows[k].blob_index : k \in 1..Len(rows)})
    IN  [k \in 1..Len(sorted) |-> sorted[Len(sorted) + 1 - k].blob_hash]

\* SELECT blob_hash FROM blob_hashes WHERE tx_hash = ? ORDER BY blob_index
\* (db.rs:503-510); rows of one transaction with equal index carry the
\* same hash, so their order among themselves does not show
blob_hashes_of(d, tx_hash) ==
    LET rows == SelectSeq(d.blob_hashes, LAMBDA r : r.tx_hash = tx_hash)
        sorted == ByIndex(rows, {rows[k].blob_index : k \in 1..Len(rows)})
    IN  [k \in 1..Len(sorted) |-> sorted[k].blob_hash]

\* the transaction tx_hash was processed once and the insert_block of its
\* block has been executed since
CommittedOnceIn(ss, tx_hash) ==
    LET at == InsertsOf(ss, tx_hash) IN
    /\ Cardinality(at) = 1
    /\ \E k \in 1..Len(ss) :
          /\ k > MaxOf(at)
          /\ ss[k].op = "insert_block"
          /\ ss[k].block_number = ss[MaxOf(at)].block_number

CommittedOnce(tx_hash) == CommittedOnceIn(ExecutedStmts, tx_hash)

HashLookupAfter(ss) ==
    \A h \in DOMAIN db.blob_transactions :
        CommittedOnceIn(ss, h) =>
            /\ blob_hashes_of(db, h) = TxOf(h).blob_versioned_hashes.v[1]
            /\ Len(blob_hashes_of(db, h)) = db.blob_transactions[h].blob_count

CommittedBlocks == notification.new

\* the positions in the log of the insert_block statements
RowWrites == {k \in 1..Len(log) : log[k].op = "insert_block"}

\* the statements of the log between the insert_block before position k
\* and position k
StmtsBefore(k) ==
    LET earlier == {j \in RowWrites : j < k}
        from == IF earlier = {} THEN 1 ELSE MaxOf(earlier) + 1
    IN  SubSeq(log, from, k - 1)

\* the block of the chain in hand with this number
BlockNumbered(n) ==
    CHOOSE b \in Range(CommittedBlocks) : b.number = n

\* C26: within a committed chain the blocks are processed in ascending
\* order of their numbers, and the blocks row of a block is written only
\* after every blob_transactions, blob_hashes and senders statement of that
\* block; so once the row of a block committed for the first time is in
\* the store, the rows of all its blob transactions are there too.
RowAfterTransactions ==
    InHand =>
      /\ \A j, k \in RowWrites :
            j < k => log[j].block_number < log[k].block_number
      /\ \A k \in RowWrites :
            LET block == BlockNumbered(log[k].block_number)
                txs == RecoverableBlobTxs(block)
                before == StmtsBefore(k)
                Of(tx, op) == SelectSeq(before,
                                 LAMBDA s : s.op = op /\
                                     IF op = "update_sender"
                                     THEN s.sender = tx.recover_signer.v[1]
                                     ELSE s.tx_hash = tx.tx_hash)
            IN  /\ \A i \in 1..Len(txs) :
                      /\ Len(Of(txs[i], "insert_blob_transaction")) = 1
                      /\ Len(Of(txs[i], "insert_blob_hash"))
                           = Len(txs[i].blob_versioned_hashes.v[1])
                      /\ Len(Of(txs[i], "update_sender")) >= 1
                /\ \A i \in 1..Len(before) : before[i].op # "delete_block" =>
                      \E t \in 1..Len(txs) :
                          \/ before[i].op = "update_sender"
                               /\ before[i].sender = txs[t].recover_signer.v[1]
                          \/ before[i].op # "update_sender"
                               /\ before[i].tx_hash = txs[t].tx_hash
                /\ \A i \in 1..Len(txs) :
                      /\ txs[i].tx_hash \in DOMAIN db.blob_transactions
                      /\ db.blob_transactions[txs[i].tx_hash].block_number
                           = block.number

\* the row of block 2 of a chain of two blocks has just been written, after
\* the row of block 1 and after the transaction 0xt4 of block 2
SecondRowWritten ==
    /\ pc = "send"
    /\ notification = ChainCommitted(<<Block1a, Block2a>>)
    /\ Cardinality(RowWrites) = 2
    /\ Len(hist) = 0
    /\ 2 \in DOMAIN db.blocks
    /\ "0xt4" \in DOMAIN db.blob_transactions

\* the blob_hashes rows of a transaction
HashRows(d, tx_hash) == SelectSeq(d.blob_hashes, LAMBDA r : r.tx_hash = tx_hash)

\* C27: in a store left by notifications applied without error, each
\* blob_transactions row has as many blob_hashes rows as its blob_count
\* says, and no two blob_hashes rows carry the same tx_hash and blob_index;
\* a notification applied again, or a revert followed by a new commit,
\* does not change that.
HashRowsMatchBlobCount ==
    Applied =>
      /\ \A h \in DOMAIN db.blob_transactions :
            Len(HashRows(db, h)) = db.blob_transactions[h].blob_count
      /\ \A i, j \in 1..Len(db.blob_hashes) :
            ( /\ db.blob_hashes[i].tx_hash = db.blob_hashes[j].tx_hash
              /\ db.blob_hashes[i].blob_index = db.blob_hashes[j].blob_index )
            => i = j

\* ChainCommitted(<<Block1a>>) applied twice: four blob_hashes rows for the
\* two blobs of 0xt1
HashRowsDoubled ==
    /\ Applied
    /\ Len(hist) = 2
    /\ hist[1].notification = ChainCommitted(<<Block1a>>)
    /\ hist[2].notification = ChainCommitted(<<Block1a>>)
    /\ db.blob_transactions["0xt1"].blob_count = 2
    /\ Len(HashRows(db, "0xt1")) = 4

\* the blob_transactions rows of a sender
RowsOfSender(d, address) ==
    SetToSeq({h \in DOMAIN d.blob_transactions :
                 d.blob_transactions[h].sender = address})

\* C28: in a store left by notifications applied without error, each
\* senders row has as tx_count the number of blob_transactions rows of its
\* address and as total_blobs the sum of their blob_count, also after a
\* notification applied again, a revert or a reorg.
SendersMatchTransactions ==
    Applied =>
      \A a \in DOMAIN db.senders :
          LET rows == RowsOfSender(db, a) IN
          /\ db.senders[a].tx_count = Len(rows)
          /\ db.senders[a].total_blobs
               = SumSeq([i \in 1..Len(rows) |->
                           db.blob_transactions[rows[i]].blob_count])

\* ChainCommitted(<<Block1a>>) applied twice: the sender of 0xt1 is counted
\* with two transactions and four blobs for its one row of two blobs
SenderCountedTwice ==
    /\ Applied
    /\ Len(hist) = 2
    /\ hist[1].notification = ChainCommitted(<<Block1a>>)
    /\ hist[2].notification = ChainCommitted(<<Block1a>>)
    /\ RowsOfSender(db, "0xS1") = <<"0xt1">>
    /\ db.senders["0xS1"].tx_count = 2
    /\ db.senders["0xS1"].total_blobs = 4

\* C29: in a store left by notifications applied without error the two
\* get_stats, the one of the library summing blob_count over
\* blob_transactions and the one of the standalone server summing
\* total_blobs over blocks, give the same total_blobs and so the same
\* avg_blobs_per_block.
StatsAgree ==
    Applied =>
      LET library == Database_get_stats(db, {}).value
          server == get_stats_reading(db, {}).value
      IN  /\ library.total_blobs = server.total_blobs
          /\ library.avg_blobs_per_block = server.avg_blobs_per_block

\* ChainCommitted(<<Block2a>>) applied: the blob of 0xt2, whose signer is
\* not recovered, is in the blocks row and in no blob_transactions row
StatsDisagree ==
    /\ Applied
    /\ Len(hist) = 1
    /\ hist[1].notification = ChainCommitted(<<Block2a>>)
    /\ Database_get_stats(db, {}).value.total_blobs = 1
    /\ get_stats_reading(db, {}).value.total_blobs = 2

\* the statements of `ss` that insert a blob_transactions row
RowInserts(ss) == SelectSeq(ss, LAMBDA s : s.op = "insert_blob_transaction")

\* the last of the statements `inserts` that is about tx_hash
LastInsert(inserts, tx_hash) ==
    inserts[MaxOf({k \in 1..Len(inserts) : inserts[k].tx_hash = tx_hash})]

\* the number of rows of a table with this value in the key column
RowsKeyed(table, column, key) ==
    Cardinality({k \in DOMAIN table : table[k][column] = key})

LastProcessedWinsAfter(inserts) ==
    /\ \A n \in DOMAIN db.blocks : RowsKeyed(db.blocks, "block_number", n) = 1
    /\ \A h \in {inserts[k].tx_hash : k \in 1..Len(inserts)} :
          /\ h \in DOMAIN db.blob_transactions
          /\ RowsKeyed(db.blob_transactions, "tx_hash", h) = 1
          /\ db.blob_transactions[h]
               = [tx_hash |-> h,
                  block_number |-> LastInsert(inserts, h).block_number,
                  sender |-> db.blob_transactions[h].sender,
                  blob_count |-> db.blob_transactions[h].blob_count,
                  gas_price |-> LastInsert(inserts, h).gas_price,
                  created_at |-> LastInsert(inserts, h).created_at]

\* C30: the store has at most one blocks row for a block number and one
\* blob_transactions row for a transaction hash, and the row of a
\* transaction hash carries the block number, gas price and timestamp of
\* the block it was last processed in.
LastProcessedWins == Strict1(LastProcessedWinsAfter, RowInserts(ExecutedStmts))

\* 0xt4 processed in block 2 of fork a and then in block 1 of fork b
ProcessedInTwoBlocks ==
    /\ Applied
    /\ Len(hist) = 2
    /\ hist[1].notification = ChainCommitted(<<Block2a>>)
    /\ hist[2].notification = ChainCommitted(<<Block1b>>)
    /\ db.blob_transactions["0xt4"].block_number = 1
    /\ db.blob_transactions["0xt4"].gas_price = 3
    /\ db.blob_transactions["0xt4"].created_at = 13
====
